---- MODULE Spec2Model ----
(***************************************************************************)
(* Model of the Bend travel guide (src/src/App.jsx, two revisions of the   *)
(* App component in one file, and src/src/components/HotDogParty.jsx).     *)
(*                                                                         *)
(* Revision v1 is the earlier App (lines 39-652), revision v2 the later    *)
(* one (lines 736-1701).  Definitions of v2 keep the source's names;       *)
(* definitions of v1 carry the suffix _v1.                                 *)
(*                                                                         *)
(* Encoding of JavaScript values:                                          *)
(*   string            a sequence of one-character strings                 *)
(*   object            a record; a key the object lacks is not in DOMAIN   *)
(*   category 'Food'   [isArray |-> FALSE, value |-> "Food"]               *)
(*   category [..]     [isArray |-> TRUE, items |-> <<..>>]                *)
(*   a thrown error    [threw |-> TRUE, value |-> <<>>]                    *)
(***************************************************************************)
EXTENDS Integers, Sequences, FiniteSets, TLC

VARIABLES
    locations,           \* useState([]): the in-memory collection
    selectedLocation,    \* useState(null)
    isEditing,           \* useState(false)
    isAdmin,             \* useState(false): the authenticated flag
    name,                \* useState(''): editor field (v2)
    description,         \* useState(''): editor field (v2)
    categories,          \* useState([]): editor field (v2)
    emoji,               \* useState(pin): editor field (v2)
    showSaveIndicator,   \* useState(false)
    saveTimerPending,    \* the hide timers set and neither fired nor cleared
    saveTimeoutRef,      \* useRef(null): saveTimeoutRef.current, a timer id
    NODE_ENV,            \* process.env.NODE_ENV, fixed by the build
    downloaded,          \* the file the last event's save effect downloaded
    hotdogs,             \* HotDogParty: useState([])
    isPartyTime,         \* HotDogParty: useState(false)
    partyTimers,         \* HotDogParty: seconds left of each pending timer
    searchTerm,          \* useState(''): the search box
    selectedCategories,  \* useState(new Set()): the category filter
    ls_locations,        \* localStorage 'locations'
    ls_isAdminSession,   \* localStorage 'isAdminSession'
    fetchPending,        \* a fetch('/locations.json') is in flight
    now,                 \* the last value Date.now() returned
    lastEvent,           \* the handler that ran last (history)
    lastAlert,           \* the alert() the last handler showed, or ""
    applied,             \* which revision's update was called (history)
    prevLocations,       \* the collection that call started from (history)
    updatedLocation,     \* the record that call was given (history)
    deletedId,           \* the id a delete call was given (history)
    exported,            \* the document the last event's export downloaded
    reloadPending,       \* window.location.reload() was called, page not yet loaded
    rendered,            \* whether the component has rendered its lists
    shown,               \* what v2 rendered from filteredLocations
    shown_v1             \* what v1 rendered from filteredLocations

reactVars ==
    <<selectedLocation, isEditing, isAdmin, name, description, categories,
      emoji, showSaveIndicator, saveTimerPending, saveTimeoutRef>>

storeVars == <<ls_locations, ls_isAdminSession>>

envVars == <<fetchPending, now, lastEvent, lastAlert>>

filterInputs == <<locations, searchTerm, selectedCategories>>

renderVars == <<rendered, shown, shown_v1>>

callVars == <<applied, prevLocations, updatedLocation, deletedId>>

appVars == <<reactVars, storeVars, envVars>>

buildVars == <<NODE_ENV, downloaded>>
partyVars == <<hotdogs, isPartyTime, partyTimers>>
pageVars == <<exported, reloadPending>>
vars ==
    <<filterInputs, appVars, renderVars, callVars, buildVars, partyVars,
      pageVars>>

(***************************************************************************)
(* Bounds of the model.                                                    *)
(***************************************************************************)
MaxLen == 2        \* records in a collection drawn as an input
MaxTermLen == 2    \* characters in a search term drawn as an input
MaxNow == 2        \* the last value Date.now() returns
MaxId == 3         \* ids of the records drawn as inputs of an update
MaxRecords == 2    \* records the collection of v1 grows to
MaxDraws == 3      \* Math.random gives k / (MaxDraws + 1), k in 0..MaxDraws

(***************************************************************************)
(* Program constants.                                                      *)
(***************************************************************************)
CATEGORIES == <<"Food", "Beverages", "Activities", "Home">>

CATEGORIES_v1 == <<"Food", "Bars", "Activities", "Home">>

(***************************************************************************)
(* JavaScript helpers.                                                     *)
(***************************************************************************)
Range(s) == {s[i] : i \in 1..Len(s)}

\* Array.isArray(x) ? x : [x] builds on these two shapes of a category.
Scalar(c) == [isArray |-> FALSE, value |-> c]

List(cs) == [isArray |-> TRUE, items |-> cs]

Reverse(s) == [i \in 1..Len(s) |-> s[Len(s) + 1 - i]]

Has(obj, key) == key \in DOMAIN obj

\* String.prototype.toLowerCase on the characters the model uses.
LowerChar(c) ==
    CASE c = "A" -> "a"
      [] c = "B" -> "b"
      [] c = "C" -> "c"
      [] OTHER -> c

toLowerCase(s) == [i \in 1..Len(s) |-> LowerChar(s[i])]

\* String.prototype.includes: t occurs in s as a contiguous substring.
includes(s, t) ==
    \E i \in 0..(Len(s) - Len(t)) : SubSeq(s, i + 1, i + Len(t)) = t

Thrown == [threw |-> TRUE, value |-> <<>>]

Returned(v) == [threw |-> FALSE, value |-> v]

(***************************************************************************)
(* Filter Engine, revision v2 (App.jsx 954-961).                           *)
(***************************************************************************)
\* Mutant: the name is compared without lower-casing either side.
nameIncludes_caseSensitive(location) == includes(location.name, searchTerm)

\* location.name.toLowerCase().includes(searchTerm.toLowerCase())
nameIncludes(location) ==
    includes(toLowerCase(location.name), toLowerCase(searchTerm))

\* location.description.toLowerCase().includes(searchTerm.toLowerCase())
descriptionIncludes(location) ==
    includes(toLowerCase(location.description), toLowerCase(searchTerm))

\* The callback throws a TypeError when it calls toLowerCase on undefined:
\* on a missing name, or, the name not matching (|| short-circuits), on a
\* missing description.
callbackThrows(location) ==
    \/ ~Has(location, "name")
    \/ /\ ~nameIncludes(location)
       /\ ~Has(location, "description")

matchesSearch(location) ==
    nameIncludes(location) \/ descriptionIncludes(location)

\* Mutant: a scalar category is not wrapped into a list.
categoriesOf_arraysOnly(location) ==
    IF ~Has(location, "category") THEN <<"undefined">>
    ELSE IF location.category.isArray THEN location.category.items
    ELSE <<>>

\* const categories = Array.isArray(location.category) ? ... : [...]
categoriesOf(location) ==
    IF ~Has(location, "category") THEN <<"undefined">>
    ELSE IF location.category.isArray THEN location.category.items
    ELSE <<location.category.value>>

\* Mutant: every category of the record must be selected (every for some).
matchesCategory_every(location) ==
    \/ Cardinality(selectedCategories) = 0
    \/ \A i \in 1..Len(categoriesOf(location)) :
          categoriesOf(location)[i] \in selectedCategories

matchesCategory(location) ==
    \/ Cardinality(selectedCategories) = 0
    \/ \E i \in 1..Len(categoriesOf(location)) :
          categoriesOf(location)[i] \in selectedCategories

\* Mutant: the two matches are joined by || instead of &&.
keeps_either(location) == matchesSearch(location) \/ matchesCategory(location)

keeps(location) == matchesSearch(location) /\ matchesCategory(location)

\* Mutant: the kept elements come out in reverse order.
filteredLocations_reversed ==
    IF \E i \in 1..Len(locations) : callbackThrows(locations[i])
    THEN Thrown
    ELSE Returned(Reverse(SelectSeq(locations, keeps)))

\* Array.prototype.filter: the kept elements in the array's order; a throw
\* of the callback ends the whole call.
filteredLocations ==
    IF \E i \in 1..Len(locations) : callbackThrows(locations[i])
    THEN Thrown
    ELSE Returned(SelectSeq(locations, keeps))

(***************************************************************************)
(* Filter Engine, revision v1 (App.jsx 169-174).                           *)
(***************************************************************************)
\* selectedCategories.has(location.category): a Set of strings holds no
\* array (SameValueZero compares objects by identity).
matchesCategory_v1(location) ==
    \/ Cardinality(selectedCategories) = 0
    \/ /\ Has(location, "category")
       /\ ~location.category.isArray
       /\ location.category.value \in selectedCategories

keeps_v1(location) == matchesSearch(location) /\ matchesCategory_v1(location)

filteredLocations_v1 ==
    IF \E i \in 1..Len(locations) : callbackThrows(locations[i])
    THEN Thrown
    ELSE Returned(SelectSeq(locations, keeps_v1))

(***************************************************************************)
(* Location Store and Session Gate, revision v2 (App.jsx 736-1701).        *)
(*                                                                         *)
(* Every action is one event handler together with the effects React runs  *)
(* after it: the save effect (838-865) follows every change of locations   *)
(* or isAdmin.  Records of the running application carry all six fields.   *)
(***************************************************************************)
Null == [null |-> TRUE]

Position == <<44, -121>>

Pin == "pin"

NotRendered == Returned(<<>>)

ADMIN_PASSWORD == "strongjasper"

\* A string held by localStorage.
Item(text) == [str |-> text]

\* JSON.stringify / JSON.parse of a collection whose records hold strings,
\* numbers and arrays only: the text holds the same array of objects.
JSONstringify(value) == [json |-> value]

\* Whether JSON.parse returns on the text; it throws a SyntaxError otherwise.
parses(text) == Has(text, "json")

\* Mutant: parsing gives the records in the opposite order.
JSONparse_reversed(text) == Reverse(text.json)

JSONparse(text) == text.json

\* JSON.stringify of an object such as { locations } (1185): the text of an
\* object, which no text of an array equals.
JSONstringifyObject(value) == [json |-> value, top |-> "object"]

\* The seed resource /locations.json: { "locations": [...] }.
SeedDocument ==
    [locations |->
        << [id |-> 1, position |-> Position, name |-> <<"A", "b">>,
            description |-> <<"b", "A">>, category |-> List(<<"Food">>),
            emoji |-> Pin] >>]

\* The first value of the clock: after the ids of the seed.
FirstNow == SeedDocument.locations[Len(SeedDocument.locations)].id + 1

\* What prompt('Enter admin password:') returns: null when cancelled.
PromptResults ==
    {[cancelled |-> TRUE, text |-> ""], [cancelled |-> FALSE, text |-> ""],
     [cancelled |-> FALSE, text |-> "guess"],
     [cancelled |-> FALSE, text |-> ADMIN_PASSWORD]}

\* The categories the admin toggles in the editor.
EditorCategories == {"Food"}

\* The name the admin types in the editor.
EditorNames == {<<"A", "b">>}

\* What the admin leaves in the description textarea: the text cleared.
EditorDescriptions == {<<>>}

\* What the admin types in the emoji input.
EditorEmojis == {Pin}

\* What the visitor types in the search box, the empty text included.
SearchTerms == {<<>>, <<"b">>}

\* The category bubbles the visitor clicks.
FilterCategories == {"Food"}

\* No timer: the initial value of saveTimeoutRef.current (775).
NoTimer == 0

\* The state of the hooks at the first render (751-768).
FreshPage ==
    /\ selectedLocation = Null
    /\ isEditing = FALSE
    /\ isAdmin = FALSE
    /\ name = <<>>
    /\ description = <<>>
    /\ categories = <<>>
    /\ emoji = Pin
    /\ showSaveIndicator = FALSE
    /\ saveTimerPending = {} /\ saveTimeoutRef = NoTimer
    /\ searchTerm = <<>>
    /\ selectedCategories = {}

\* A value getItem returned is truthy: neither null nor the empty string.
truthy(item) == item # Null /\ item # Item("")

\* The load effect reads the store: hydrate, or fetch the seed (789-797).
hydrates(savedLocations, isAdminSession) ==
    isAdminSession = Item("true") /\ truthy(savedLocations)

\* The load effect throws: it parses the persisted value (790), which is
\* not JSON.  Nothing catches the error.
loadThrows(savedLocations, isAdminSession) ==
    hydrates(savedLocations, isAdminSession) /\ ~parses(savedLocations)

\* Mutant: a persisted value that does not parse is treated as absent.
PageLoad_fallsBack(savedLocations, isAdminSession) ==
    /\ selectedLocation' = Null
    /\ isEditing' = FALSE
    /\ isAdmin' = FALSE
    /\ name' = <<>>
    /\ description' = <<>>
    /\ categories' = <<>>
    /\ emoji' = Pin
    /\ showSaveIndicator' = FALSE
    /\ saveTimerPending' = {} /\ saveTimeoutRef' = NoTimer
    /\ searchTerm' = <<>>
    /\ selectedCategories' = {}
    /\ IF hydrates(savedLocations, isAdminSession) /\ parses(savedLocations)
       THEN locations' = JSONparse(savedLocations) /\ fetchPending' = FALSE
       ELSE locations' = <<>> /\ fetchPending' = TRUE

\* Mutant: the page restores the admin flag from the session marker.
PageLoad_restoresAdmin(savedLocations, isAdminSession) ==
    /\ selectedLocation' = Null
    /\ isEditing' = FALSE
    /\ isAdmin' = (isAdminSession = Item("true"))
    /\ name' = <<>>
    /\ description' = <<>>
    /\ categories' = <<>>
    /\ emoji' = Pin
    /\ showSaveIndicator' = FALSE
    /\ saveTimerPending' = {} /\ saveTimeoutRef' = NoTimer
    /\ searchTerm' = <<>>
    /\ selectedCategories' = {}
    /\ IF hydrates(savedLocations, isAdminSession)
       THEN locations' = JSONparse(savedLocations) /\ fetchPending' = FALSE
       ELSE locations' = <<>> /\ fetchPending' = TRUE

\* A page load: the hooks start afresh, the load effect runs (781-798); the
\* save effect that follows finds isAdmin false.  When JSON.parse throws,
\* setLocations is not reached and the else branch is not taken.
PageLoad(savedLocations, isAdminSession) ==
    /\ selectedLocation' = Null
    /\ isEditing' = FALSE
    /\ isAdmin' = FALSE
    /\ name' = <<>>
    /\ description' = <<>>
    /\ categories' = <<>>
    /\ emoji' = Pin
    /\ showSaveIndicator' = FALSE
    /\ saveTimerPending' = {} /\ saveTimeoutRef' = NoTimer
    /\ searchTerm' = <<>>
    /\ selectedCategories' = {}
    /\ IF hydrates(savedLocations, isAdminSession)
       THEN IF parses(savedLocations)
            THEN locations' = JSONparse(savedLocations) /\ fetchPending' = FALSE
            ELSE locations' = <<>> /\ fetchPending' = FALSE
       ELSE locations' = <<>> /\ fetchPending' = TRUE

\* The id setTimeout returns: one no live or remembered timer has (846).
newTimerId ==
    CHOOSE id \in 1..(Cardinality(saveTimerPending) + 2) :
        /\ id \notin saveTimerPending \cup {saveTimeoutRef}
        /\ \A smaller \in 1..(id - 1) :
               smaller \in saveTimerPending \cup {saveTimeoutRef}

\* Mutant: the new hide timer is started without clearing the old one.
restartSaveTimer_keepsOld ==
    /\ saveTimerPending' = saveTimerPending \cup {newTimerId}
    /\ saveTimeoutRef' = newTimerId

\* The save effect restarts the hide timer (842-848): the remembered timer
\* is cleared and a new one is started and remembered.
restartSaveTimer ==
    /\ saveTimerPending' =
           (saveTimerPending \ {saveTimeoutRef}) \cup {newTimerId}
    /\ saveTimeoutRef' = newTimerId

\* The values of process.env.NODE_ENV a build is made with (850).
BuildModes == {"production", "development"}

\* The alert that follows the download (862; 99 in v1).
DownloadAlert ==
    "Location data has been downloaded. Please update the locations.json file in your GitHub repository to make the changes visible to everyone."

\* The download of the save effect (850-864): in a production build
\* { locations } is serialized, downloaded as locations.json and announced.
autoDownload(newLocations) ==
    downloaded' = IF NODE_ENV = "production"
                  THEN [file |-> "locations.json",
                        text |-> JSONstringifyObject([locations |-> newLocations]),
                        alert |-> DownloadAlert]
                  ELSE Null

\* v1's download (87-100), the same statements; v1 tests isAdmin here.
autoDownload_v1(newLocations) ==
    downloaded' = IF NODE_ENV = "production"
                  THEN [file |-> "locations.json",
                        text |-> JSONstringifyObject([locations |-> newLocations]),
                        alert |-> DownloadAlert]
                  ELSE Null

\* Mutant: the save effect writes in every session.
SaveEffect_anySession(newLocations, newIsAdmin) ==
    IF Len(newLocations) > 0
    THEN /\ ls_locations' = JSONstringify(newLocations)
         /\ IF newIsAdmin
            THEN showSaveIndicator' = TRUE /\ restartSaveTimer
            ELSE /\ showSaveIndicator' = FALSE
                 /\ UNCHANGED <<saveTimerPending, saveTimeoutRef>>
         /\ IF newIsAdmin
            THEN autoDownload(newLocations) ELSE downloaded' = Null
    ELSE /\ downloaded' = Null
         /\ UNCHANGED <<ls_locations, showSaveIndicator, saveTimerPending,
                        saveTimeoutRef>>

\* The save effect (838-849), run with the values of the new render.
SaveEffect(newLocations, newIsAdmin) ==
    IF Len(newLocations) > 0 /\ newIsAdmin
    THEN /\ ls_locations' = JSONstringify(newLocations)
         /\ showSaveIndicator' = TRUE
         /\ restartSaveTimer
         /\ autoDownload(newLocations)
    ELSE /\ downloaded' = Null
         /\ UNCHANGED <<ls_locations, showSaveIndicator, saveTimerPending,
                        saveTimeoutRef>>

\* v1's save effect (69-102), run with the values of the new render.
SaveEffect_v1(newLocations, newIsAdmin) ==
    IF Len(newLocations) > 0
    THEN /\ ls_locations' = JSONstringify(newLocations)
         /\ IF newIsAdmin
            THEN showSaveIndicator' = TRUE /\ restartSaveTimer
            ELSE UNCHANGED <<showSaveIndicator, saveTimerPending, saveTimeoutRef>>
         /\ IF newIsAdmin
            THEN autoDownload_v1(newLocations) ELSE downloaded' = Null
    ELSE /\ downloaded' = Null
         /\ UNCHANGED <<ls_locations, showSaveIndicator, saveTimerPending,
                        saveTimeoutRef>>

\* Mutant: the record is appended whether or not its id is found.
handleLocationUpdate_append(prevLocations_, updatedLocation_) ==
    Append(prevLocations_, updatedLocation_)

\* handleLocationUpdate's updater (925-934): findIndex gives the first match.
handleLocationUpdate(prevLocations_, updatedLocation_) ==
    LET matches == {i \in 1..Len(prevLocations_) :
                       prevLocations_[i].id = updatedLocation_.id}
        existingIndex == CHOOSE i \in matches : \A j \in matches : i <= j
    IN  IF matches # {}
        THEN [prevLocations_ EXCEPT ![existingIndex] = updatedLocation_]
        ELSE Append(prevLocations_, updatedLocation_)

\* Mutant: the comparison of the map callback is inverted.
handleLocationUpdate_v1_inverted(locations_, updatedLocation_) ==
    [i \in 1..Len(locations_) |->
        IF locations_[i].id # updatedLocation_.id
        THEN updatedLocation_ ELSE locations_[i]]

\* Revision v1's handleLocationUpdate (155-158): locations.map replaces
\* every record whose id matches.
handleLocationUpdate_v1(locations_, updatedLocation_) ==
    [i \in 1..Len(locations_) |->
        IF locations_[i].id = updatedLocation_.id
        THEN updatedLocation_ ELSE locations_[i]]

\* Mutant: the filter keeps the records of the id and drops the others.
handleLocationDelete_inverted(prevLocations_, id) ==
    LET keep(loc) == loc.id = id
    IN  SelectSeq(prevLocations_, keep)

\* handleLocationDelete's updater (945).
handleLocationDelete(prevLocations_, id) ==
    LET keep(loc) == loc.id # id
    IN  SelectSeq(prevLocations_, keep)

\* Revision v1's handleLocationDelete (164): locations.filter.
handleLocationDelete_v1(locations_, id) ==
    LET keep(loc) == loc.id # id
    IN  SelectSeq(locations_, keep)

\* { ...selectedLocation, name, description, category: categories, emoji }
\* (1542-1548).
editedLocation ==
    [k \in DOMAIN selectedLocation
           \cup {"name", "description", "category", "emoji"} |->
        CASE k = "name" -> name
          [] k = "description" -> description
          [] k = "category" -> List(categories)
          [] k = "emoji" -> emoji
          [] OTHER -> selectedLocation[k]]

\* LocationEditor.handleSubmit's record (971-977), a component v2 defines
\* and never renders.
LocationEditor_submitted(location, edName, edDescription, edCategories, edEmoji) ==
    [k \in DOMAIN location
           \cup {"name", "description", "category", "emoji"} |->
        CASE k = "name" -> edName
          [] k = "description" -> edDescription
          [] k = "category" ->
                List(IF Len(edCategories) > 0 THEN edCategories ELSE <<"Food">>)
          [] k = "emoji" -> edEmoji
          [] OTHER -> location[k]]

\* The fetch of the seed resolves: setLocations(data.locations) (795).
FetchResolves ==
    /\ fetchPending
    /\ fetchPending' = FALSE
    /\ locations' = SeedDocument.locations
    /\ SaveEffect(locations', isAdmin)
    /\ lastEvent' = "fetched" /\ lastAlert' = ""
    /\ UNCHANGED <<selectedLocation, isEditing, isAdmin, name, description,
                   categories, emoji, searchTerm, selectedCategories,
                   ls_isAdminSession, now, renderVars, callVars>>
    /\ exported' = Null /\ UNCHANGED <<NODE_ENV, reloadPending, partyVars>>

\* Mutant: a failed fetch is issued again.
FetchRejects_retries ==
    /\ fetchPending
    /\ fetchPending' = TRUE
    /\ lastEvent' = "fetchFailed" /\ lastAlert' = ""
    /\ UNCHANGED <<locations, reactVars, searchTerm, selectedCategories,
                   storeVars, now, renderVars, callVars>>
    /\ downloaded' = Null /\ exported' = Null
    /\ UNCHANGED <<NODE_ENV, reloadPending, partyVars>>

\* The fetch fails: console.error (796).
FetchRejects ==
    /\ fetchPending
    /\ fetchPending' = FALSE
    /\ lastEvent' = "fetchFailed" /\ lastAlert' = ""
    /\ UNCHANGED <<locations, reactVars, searchTerm, selectedCategories,
                   storeVars, now, renderVars, callVars>>
    /\ downloaded' = Null /\ exported' = Null
    /\ UNCHANGED <<NODE_ENV, reloadPending, partyVars>>

\* Mutant: every password that was entered is accepted.
LoginClick_anyPassword(password) ==
    /\ ~isAdmin
    /\ lastEvent' = "login"
    /\ IF ~password.cancelled /\ password.text # ""
       THEN /\ isAdmin' = TRUE
            /\ ls_isAdminSession' = Item("true")
            /\ SaveEffect(locations, TRUE)
            /\ lastAlert' = ""
       ELSE /\ downloaded' = Null
            /\ lastAlert' = ""
            /\ UNCHANGED <<isAdmin, ls_isAdminSession, ls_locations,
                           showSaveIndicator, saveTimerPending, saveTimeoutRef>>
    /\ UNCHANGED <<locations, selectedLocation, isEditing, name, description,
                   categories, emoji, searchTerm, selectedCategories,
                   fetchPending, now, renderVars, callVars>>
    /\ exported' = Null /\ UNCHANGED <<NODE_ENV, reloadPending, partyVars>>

\* Mutant: the login sets the flag and leaves the session marker unset.
LoginClick_noMarker(password) ==
    /\ ~isAdmin
    /\ lastEvent' = "login"
    /\ IF ~password.cancelled /\ password.text = ADMIN_PASSWORD
       THEN /\ isAdmin' = TRUE
            /\ SaveEffect(locations, TRUE)
            /\ lastAlert' = ""
       ELSE /\ downloaded' = Null
            /\ lastAlert' =
                  IF ~password.cancelled /\ password.text # ""
                  THEN "Incorrect password" ELSE ""
            /\ UNCHANGED <<isAdmin, ls_locations, showSaveIndicator,
                           saveTimerPending, saveTimeoutRef>>
    /\ UNCHANGED <<locations, selectedLocation, isEditing, name, description,
                   categories, emoji, searchTerm, selectedCategories,
                   ls_isAdminSession, fetchPending, now, renderVars, callVars>>
    /\ exported' = Null /\ UNCHANGED <<NODE_ENV, reloadPending, partyVars>>

\* The lock button's onClick (1253-1261); shown while !isAdmin.
LoginClick(password) ==
    /\ ~isAdmin
    /\ lastEvent' = "login"
    /\ IF ~password.cancelled /\ password.text = ADMIN_PASSWORD
       THEN /\ isAdmin' = TRUE
            /\ ls_isAdminSession' = Item("true")
            /\ SaveEffect(locations, TRUE)
            /\ lastAlert' = ""
       ELSE /\ downloaded' = Null
            /\ lastAlert' =
                  IF ~password.cancelled /\ password.text # ""
                  THEN "Incorrect password" ELSE ""
            /\ UNCHANGED <<isAdmin, ls_isAdminSession, ls_locations,
                           showSaveIndicator, saveTimerPending, saveTimeoutRef>>
    /\ UNCHANGED <<locations, selectedLocation, isEditing, name, description,
                   categories, emoji, searchTerm, selectedCategories,
                   fetchPending, now, renderVars, callVars>>
    /\ exported' = Null /\ UNCHANGED <<NODE_ENV, reloadPending, partyVars>>

\* handleLogout (824-832), the button shown while isAdmin (1245): three
\* setters, both keys removed, window.location.reload() called.  The handler
\* returns with the old page still there: its collection, its indicator and
\* its timer stay until the page is loaded again (Reload).  The save effect
\* that follows setIsAdmin(false) finds the flag false and writes nothing
\* (839).
handleLogout ==
    /\ isAdmin
    /\ isAdmin' = FALSE
    /\ isEditing' = FALSE
    /\ selectedLocation' = Null
    /\ ls_isAdminSession' = Null
    /\ ls_locations' = Null
    /\ reloadPending' = TRUE
    /\ lastEvent' = "logout" /\ lastAlert' = ""
    /\ UNCHANGED <<locations, name, description, categories, emoji,
                   showSaveIndicator, saveTimerPending, saveTimeoutRef,
                   searchTerm, selectedCategories, fetchPending, now,
                   renderVars, callVars>>
    /\ downloaded' = Null /\ exported' = Null
    /\ UNCHANGED <<NODE_ENV, partyVars>>

\* HotDogParty is mounted with the page (1230; 649 in v1): its hooks start
\* from useState's initial values (HotDogParty.jsx 4-5) and the timers of
\* the page that is gone never fire.
HotDogPartyMount ==
    /\ hotdogs' = <<>>
    /\ isPartyTime' = FALSE
    /\ partyTimers' = <<>>

\* The page is loaded again (751-798): the user reloads it, or the reload
\* handleLogout asked for takes place.
Reload ==
    /\ PageLoad(ls_locations, ls_isAdminSession)
    /\ HotDogPartyMount
    /\ reloadPending' = FALSE
    /\ lastEvent' = "reload" /\ lastAlert' = ""
    /\ UNCHANGED <<storeVars, now, renderVars, callVars>>
    /\ downloaded' = Null /\ exported' = Null
    /\ UNCHANGED NODE_ENV

\* Mutant: the map click appends the new record at once, as v1 does.
handleMapClick_appends(t) ==
    /\ isAdmin
    /\ selectedLocation' =
          [id |-> t, position |-> Position, name |-> <<>>,
           description |-> <<>>, category |-> List(<<"Food">>), emoji |-> Pin]
    /\ locations' = Append(locations, selectedLocation')
    /\ name' = <<>>
    /\ description' = <<>>
    /\ categories' = <<"Food">>
    /\ emoji' = Pin
    /\ isEditing' = TRUE
    /\ SaveEffect(locations', isAdmin)
    /\ now' = t
    /\ lastEvent' = "mapClick" /\ lastAlert' = ""
    /\ UNCHANGED <<isAdmin, searchTerm, selectedCategories, ls_isAdminSession,
                   fetchPending, renderVars, callVars>>
    /\ exported' = Null /\ UNCHANGED <<NODE_ENV, reloadPending, partyVars>>

\* handleMapClick (900-917): a draft is opened in the editor.
handleMapClick(t) ==
    /\ isAdmin
    /\ selectedLocation' =
          [id |-> t, position |-> Position, name |-> <<>>,
           description |-> <<>>, category |-> List(<<"Food">>), emoji |-> Pin]
    /\ name' = <<>>
    /\ description' = <<>>
    /\ categories' = <<"Food">>
    /\ emoji' = Pin
    /\ isEditing' = TRUE
    /\ now' = t
    /\ lastEvent' = "mapClick" /\ lastAlert' = ""
    /\ UNCHANGED <<locations, isAdmin, showSaveIndicator, saveTimerPending, saveTimeoutRef,
                   searchTerm, selectedCategories, storeVars, fetchPending,
                   renderVars, callVars>>
    /\ downloaded' = Null /\ exported' = Null
    /\ UNCHANGED <<NODE_ENV, reloadPending, partyVars>>

\* A marker's click handler (1442-1453) and the popup's Edit button
\* (1476-1483); markers are drawn for filteredLocations.
MarkerClick(location) ==
    /\ IF isAdmin
       THEN /\ selectedLocation' = location
            /\ isEditing' = TRUE
            /\ name' = location.name
            /\ description' = location.description
            /\ categories' = categoriesOf(location)
            /\ emoji' = location.emoji
       ELSE /\ selectedLocation' = location
            /\ UNCHANGED <<isEditing, name, description, categories, emoji>>
    /\ lastEvent' = "markerClick" /\ lastAlert' = ""
    /\ UNCHANGED <<locations, isAdmin, showSaveIndicator, saveTimerPending, saveTimeoutRef,
                   searchTerm, selectedCategories, storeVars, fetchPending,
                   now, renderVars, callVars>>
    /\ downloaded' = Null /\ exported' = Null
    /\ UNCHANGED <<NODE_ENV, reloadPending, partyVars>>

\* The popup's Delete button (1488-1489), shown to the admin:
\* handleLocationDelete (944-948).
PopupDelete(location) ==
    /\ isAdmin
    /\ locations' = handleLocationDelete(locations, location.id)
    /\ isEditing' = FALSE
    /\ selectedLocation' = Null
    /\ SaveEffect(locations', isAdmin)
    /\ lastEvent' = "delete" /\ lastAlert' = ""
    /\ UNCHANGED <<isAdmin, name, description, categories, emoji, searchTerm,
                   selectedCategories, ls_isAdminSession, fetchPending, now,
                   renderVars, callVars>>
    /\ exported' = Null /\ UNCHANGED <<NODE_ENV, reloadPending, partyVars>>

\* The editor's name input (1553).
EditorSetName(text) ==
    /\ isEditing
    /\ name' = text
    /\ lastEvent' = "input" /\ lastAlert' = ""
    /\ UNCHANGED <<locations, selectedLocation, isEditing, isAdmin,
                   description, categories, emoji, showSaveIndicator,
                   saveTimerPending, saveTimeoutRef, searchTerm, selectedCategories,
                   storeVars, fetchPending, now, renderVars, callVars>>
    /\ downloaded' = Null /\ exported' = Null
    /\ UNCHANGED <<NODE_ENV, reloadPending, partyVars>>

\* A category checkbox of the editor (1571-1579).
EditorToggleCategory(cat) ==
    /\ isEditing
    /\ categories' =
          IF cat \in Range(categories)
          THEN LET other(c) == c # cat IN SelectSeq(categories, other)
          ELSE Append(categories, cat)
    /\ lastEvent' = "input" /\ lastAlert' = ""
    /\ UNCHANGED <<locations, selectedLocation, isEditing, isAdmin, name,
                   description, emoji, showSaveIndicator, saveTimerPending, saveTimeoutRef,
                   searchTerm, selectedCategories, storeVars, fetchPending,
                   now, renderVars, callVars>>
    /\ downloaded' = Null /\ exported' = Null
    /\ UNCHANGED <<NODE_ENV, reloadPending, partyVars>>

\* The editor's description textarea (1559).
EditorSetDescription(text) ==
    /\ isEditing
    /\ description' = text
    /\ lastEvent' = "input" /\ lastAlert' = ""
    /\ UNCHANGED <<locations, selectedLocation, isEditing, isAdmin, name,
                   categories, emoji, showSaveIndicator, saveTimerPending,
                   saveTimeoutRef, searchTerm, selectedCategories, storeVars,
                   fetchPending, now, renderVars, callVars>>
    /\ downloaded' = Null /\ exported' = Null
    /\ UNCHANGED <<NODE_ENV, reloadPending, partyVars>>

\* The editor's emoji input (1592).
EditorSetEmoji(text) ==
    /\ isEditing
    /\ emoji' = text
    /\ lastEvent' = "input" /\ lastAlert' = ""
    /\ UNCHANGED <<locations, selectedLocation, isEditing, isAdmin, name,
                   description, categories, showSaveIndicator,
                   saveTimerPending, saveTimeoutRef, searchTerm,
                   selectedCategories, storeVars, fetchPending, now,
                   renderVars, callVars>>
    /\ downloaded' = Null /\ exported' = Null
    /\ UNCHANGED <<NODE_ENV, reloadPending, partyVars>>

\* The search input's listener (1307-1309, 1411-1413; the list's input,
\* 1096): setSearchTerm of what the input holds; the bubble's second click
\* sets '' (1297, 1401).
SetSearchTerm(text) ==
    /\ searchTerm' = text
    /\ lastEvent' = "input" /\ lastAlert' = ""
    /\ UNCHANGED <<locations, reactVars, selectedCategories, storeVars,
                   fetchPending, now, renderVars, callVars>>
    /\ downloaded' = Null /\ exported' = Null
    /\ UNCHANGED <<NODE_ENV, reloadPending, partyVars>>

\* A category bubble's onClick (1324-1331, 1374-1381; the list's checkbox,
\* 1105-1113): the category is taken out of a copy of the Set when it is
\* there, put in when it is not.
CategoryFilterClick(category) ==
    /\ selectedCategories' =
          IF category \in selectedCategories
          THEN selectedCategories \ {category}
          ELSE selectedCategories \cup {category}
    /\ lastEvent' = "input" /\ lastAlert' = ""
    /\ UNCHANGED <<locations, reactVars, searchTerm, storeVars, fetchPending,
                   now, renderVars, callVars>>
    /\ downloaded' = Null /\ exported' = Null
    /\ UNCHANGED <<NODE_ENV, reloadPending, partyVars>>

\* The editor's Save (1540-1549): handleLocationUpdate (924-937).
EditorSave ==
    /\ isEditing
    /\ Len(handleLocationUpdate(locations, editedLocation)) <= MaxRecords
    /\ locations' = handleLocationUpdate(locations, editedLocation)
    /\ isEditing' = FALSE
    /\ selectedLocation' = Null
    /\ SaveEffect(locations', isAdmin)
    /\ lastEvent' = "save" /\ lastAlert' = ""
    /\ UNCHANGED <<isAdmin, name, description, categories, emoji, searchTerm,
                   selectedCategories, ls_isAdminSession, fetchPending, now,
                   renderVars, callVars>>
    /\ exported' = Null /\ UNCHANGED <<NODE_ENV, reloadPending, partyVars>>

\* The editor's Cancel (1606-1609).
EditorCancel ==
    /\ isEditing
    /\ isEditing' = FALSE
    /\ selectedLocation' = Null
    /\ lastEvent' = "cancel" /\ lastAlert' = ""
    /\ UNCHANGED <<locations, isAdmin, name, description, categories, emoji,
                   showSaveIndicator, saveTimerPending, saveTimeoutRef, searchTerm,
                   selectedCategories, storeVars, fetchPending, now,
                   renderVars, callVars>>
    /\ downloaded' = Null /\ exported' = Null
    /\ UNCHANGED <<NODE_ENV, reloadPending, partyVars>>

\* The hide timer of the save indicator fires (846-848).
SaveTimerFires ==
    /\ \E id \in saveTimerPending : saveTimerPending' = saveTimerPending \ {id}
    /\ showSaveIndicator' = FALSE
    /\ UNCHANGED saveTimeoutRef
    /\ lastEvent' = "timer" /\ lastAlert' = ""
    /\ UNCHANGED <<locations, selectedLocation, isEditing, isAdmin, name,
                   description, categories, emoji, searchTerm,
                   selectedCategories, storeVars, fetchPending, now,
                   renderVars, callVars>>
    /\ downloaded' = Null /\ exported' = Null
    /\ UNCHANGED <<NODE_ENV, reloadPending, partyVars>>

\* The first visit: an empty store, the page just loaded.
Init ==
    /\ FreshPage
    /\ locations = <<>>
    /\ ls_locations = Null
    /\ ls_isAdminSession = Null
    /\ fetchPending = TRUE
    /\ now = FirstNow
    /\ lastEvent = "load" /\ lastAlert = ""
    /\ NODE_ENV = "production" /\ downloaded = Null
    /\ hotdogs = <<>> /\ isPartyTime = FALSE /\ partyTimers = <<>>
    /\ rendered = FALSE /\ shown = NotRendered /\ shown_v1 = NotRendered
    /\ applied = "none" /\ prevLocations = <<>> /\ updatedLocation = Null
    /\ deletedId = 0 /\ exported = Null /\ reloadPending = FALSE

\* Mutant: the exported document lists the records in the opposite order.
handleExportLocations_reversed ==
    /\ exported' = JSONstringifyObject([locations |-> Reverse(locations)])
    /\ lastEvent' = "export" /\ lastAlert' = ""
    /\ UNCHANGED <<filterInputs, reactVars, storeVars, fetchPending, now,
                   renderVars, applied, prevLocations, updatedLocation,
                   deletedId>>
    /\ downloaded' = Null
    /\ UNCHANGED <<NODE_ENV, reloadPending, partyVars>>

\* handleExportLocations (1184-1195): { locations } is serialized and
\* downloaded as locations.json.
handleExportLocations ==
    /\ exported' = JSONstringifyObject([locations |-> locations])
    /\ lastEvent' = "export" /\ lastAlert' = ""
    /\ UNCHANGED <<filterInputs, reactVars, storeVars, fetchPending, now,
                   renderVars, applied, prevLocations, updatedLocation,
                   deletedId>>
    /\ downloaded' = Null
    /\ UNCHANGED <<NODE_ENV, reloadPending, partyVars>>

\* v1's handleExportLocations (336-347), the same statements.
handleExportLocations_v1 ==
    /\ exported' = JSONstringifyObject([locations |-> locations])
    /\ lastEvent' = "export" /\ lastAlert' = ""
    /\ UNCHANGED <<filterInputs, reactVars, storeVars, fetchPending, now,
                   renderVars, applied, prevLocations, updatedLocation,
                   deletedId>>
    /\ downloaded' = Null
    /\ UNCHANGED <<NODE_ENV, reloadPending, partyVars>>

\* The events of the page.  The export and logout buttons are in the header
\* the admin sees (1235-1248).
Next ==
    \/ FetchResolves
    \/ FetchRejects
    \/ \E password \in PromptResults : LoginClick(password)
    \/ handleLogout
    \/ Reload
    \/ \E t \in now..MaxNow : handleMapClick(t)
    \/ \E i \in 1..Len(filteredLocations.value) :
           MarkerClick(filteredLocations.value[i])
    \/ \E i \in 1..Len(filteredLocations.value) :
           PopupDelete(filteredLocations.value[i])
    \/ \E text \in EditorNames : EditorSetName(text)
    \/ \E text \in EditorDescriptions :
           EditorSetDescription(text)
    \/ \E cat \in EditorCategories :
           EditorToggleCategory(cat)
    \/ \E text \in EditorEmojis : EditorSetEmoji(text)
    \/ EditorSave
    \/ EditorCancel
    \/ \E text \in SearchTerms : SetSearchTerm(text)
    \/ \E category \in FilterCategories :
           CategoryFilterClick(category)
    \/ isAdmin /\ handleExportLocations
    \/ SaveTimerFires

Spec == Init /\ [][Next]_vars

(***************************************************************************)
(* Inputs of the filter: collections, search terms and category sets.      *)
(***************************************************************************)
Alphabet == {"a", "A", "b"}

StrUpTo(n) == UNION {[1..k -> Alphabet] : k \in 0..n}

SampleNames == {<<"A", "b">>, <<"b">>}

SampleDescriptions == {<<"b", "A">>}

SampleCategories ==
    {Scalar("Beverages"), List(<<>>), List(<<"Food">>),
     List(<<"Food", "Beverages">>)}

\* A record before it gets its id; the second set lacks the description key.
SampleFields ==
    {[name |-> n, description |-> d, category |-> c,
      position |-> Position, emoji |-> Pin] :
        n \in SampleNames, d \in SampleDescriptions, c \in SampleCategories}
    \cup
    {[name |-> n, category |-> c, position |-> Position, emoji |-> Pin] :
        n \in SampleNames, c \in SampleCategories}

WithId(fields, id) ==
    [k \in DOMAIN fields \cup {"id"} |->
        IF k = "id" THEN id ELSE fields[k]]

\* Collections of at most MaxLen records, the record at position i with id i.
SampleCollections ==
    UNION {{[i \in 1..n |-> WithId(f[i], i)] : f \in [1..n -> SampleFields]} :
           n \in 0..MaxLen}

\* The collection and the search term of the spec's scenarios (spec.md 8).
ScenarioCollection ==
    << [id |-> 1, name |-> <<"C", "a", "f", "e">>, category |-> List(<<"Food">>)],
       [id |-> 2, name |-> <<"B", "a", "r">>, category |-> List(<<"Beverages">>)] >>

ScenarioTerm == <<"b", "a", "r">>

Collections == SampleCollections \cup {ScenarioCollection}

Terms == StrUpTo(MaxTermLen) \cup {ScenarioTerm}

Selections == SUBSET {"Food", "Beverages"}

(***************************************************************************)
(* The filter as a function of its three inputs: Init draws the inputs,    *)
(* Render evaluates filteredLocations as each revision's render does.      *)
(***************************************************************************)
\* The rest of the page while a function is exercised on drawn inputs.
IdlePage ==
    /\ selectedLocation = Null /\ isEditing = FALSE /\ isAdmin = FALSE
    /\ name = <<>> /\ description = <<>> /\ categories = <<>> /\ emoji = Pin
    /\ showSaveIndicator = FALSE /\ saveTimerPending = {} /\ saveTimeoutRef = NoTimer
    /\ ls_locations = Null /\ ls_isAdminSession = Null
    /\ fetchPending = FALSE /\ now = FirstNow
    /\ lastEvent = "load" /\ lastAlert = ""
    /\ NODE_ENV = "production" /\ downloaded = Null
    /\ hotdogs = <<>> /\ isPartyTime = FALSE /\ partyTimers = <<>>

InitFilter ==
    /\ IdlePage
    /\ locations \in Collections
    /\ searchTerm \in Terms
    /\ selectedCategories \in Selections
    /\ rendered = FALSE
    /\ shown = NotRendered
    /\ shown_v1 = NotRendered
    /\ applied = "none" /\ prevLocations = <<>> /\ updatedLocation = Null
    /\ deletedId = 0 /\ exported = Null /\ reloadPending = FALSE

Render ==
    /\ ~rendered
    /\ rendered' = TRUE
    /\ shown' = filteredLocations
    /\ shown_v1' = filteredLocations_v1
    /\ UNCHANGED <<filterInputs, appVars, callVars>>
    /\ UNCHANGED <<NODE_ENV, downloaded, partyVars, pageVars>>

NextFilter == Render

SpecFilter == InitFilter /\ [][NextFilter]_vars

(***************************************************************************)
(* handleLocationUpdate and handleLocationDelete as functions of the       *)
(* collection and the record or id they are given: Init draws a            *)
(* collection, each action calls one revision's handler with a drawn       *)
(* argument and keeps what the call started from.                          *)
(***************************************************************************)
StoreNames == {<<"b">>, <<"A", "b">>}

StoreRecords ==
    {[id |-> i, position |-> Position, name |-> n, description |-> <<>>,
      category |-> List(<<"Food">>), emoji |-> Pin] :
        i \in 1..MaxId, n \in StoreNames}

StoreCollections == UNION {[1..n -> StoreRecords] : n \in 0..MaxLen}

\* The page a handler is called on: a visitor's page of one revision that
\* holds a drawn collection.  v1's save effect has stored a non-empty
\* collection when it was set (69-72); v2's writes for an admin only (839).
InitUpdate ==
    /\ selectedLocation = Null /\ isEditing = FALSE /\ isAdmin = FALSE
    /\ name = <<>> /\ description = <<>> /\ categories = <<>> /\ emoji = Pin
    /\ showSaveIndicator = FALSE /\ saveTimerPending = {} /\ saveTimeoutRef = NoTimer
    /\ ls_isAdminSession = Null
    /\ fetchPending = FALSE /\ now = FirstNow
    /\ lastEvent = "load" /\ lastAlert = ""
    /\ NODE_ENV = "production" /\ downloaded = Null
    /\ hotdogs = <<>> /\ isPartyTime = FALSE /\ partyTimers = <<>>
    /\ locations \in StoreCollections
    /\ applied \in {"page_v1", "page_v2"}
    /\ ls_locations = IF applied = "page_v1" /\ Len(locations) > 0
                      THEN JSONstringify(locations) ELSE Null
    /\ prevLocations = <<>> /\ updatedLocation = Null
    /\ searchTerm = <<>>
    /\ selectedCategories = {}
    /\ rendered = FALSE /\ shown = NotRendered /\ shown_v1 = NotRendered
    /\ deletedId = 0 /\ exported = Null /\ reloadPending = FALSE

\* v2's handleLocationUpdate (924-937) called with record u.
CallUpdate(u) ==
    /\ applied = "page_v2"
    /\ applied' = "v2"
    /\ prevLocations' = locations
    /\ updatedLocation' = u
    /\ locations' = handleLocationUpdate(locations, u)
    /\ isEditing' = FALSE
    /\ selectedLocation' = Null
    /\ SaveEffect(locations', isAdmin)
    /\ UNCHANGED <<isAdmin, name, description, categories, emoji, searchTerm,
                   selectedCategories, ls_isAdminSession, envVars, renderVars,
                   deletedId>>
    /\ exported' = Null /\ UNCHANGED <<NODE_ENV, reloadPending, partyVars>>

\* v1's handleLocationUpdate (155-161) called with record u, and the save
\* effect (69-102) that follows the new array.
CallUpdate_v1(u) ==
    /\ applied = "page_v1"
    /\ applied' = "v1"
    /\ prevLocations' = locations
    /\ updatedLocation' = u
    /\ locations' = handleLocationUpdate_v1(locations, u)
    /\ selectedLocation' = Null
    /\ isEditing' = FALSE
    /\ SaveEffect_v1(locations', isAdmin)
    /\ UNCHANGED <<isAdmin, name, description, categories, emoji, searchTerm,
                   selectedCategories, ls_isAdminSession, envVars, renderVars,
                   deletedId>>
    /\ exported' = Null /\ UNCHANGED <<NODE_ENV, reloadPending, partyVars>>

\* v2's handleLocationDelete (944-948) called with id.
CallDelete(id) ==
    /\ applied = "page_v2"
    /\ applied' = "delete_v2"
    /\ prevLocations' = locations
    /\ deletedId' = id
    /\ locations' = handleLocationDelete(locations, id)
    /\ isEditing' = FALSE
    /\ selectedLocation' = Null
    /\ SaveEffect(locations', isAdmin)
    /\ UNCHANGED <<isAdmin, name, description, categories, emoji, searchTerm,
                   selectedCategories, ls_isAdminSession, envVars, renderVars,
                   updatedLocation>>
    /\ exported' = Null /\ UNCHANGED <<NODE_ENV, reloadPending, partyVars>>

\* v1's handleLocationDelete (163-167) called with id, and the save effect
\* (69-102) that follows the new array.
CallDelete_v1(id) ==
    /\ applied = "page_v1"
    /\ applied' = "delete_v1"
    /\ prevLocations' = locations
    /\ deletedId' = id
    /\ locations' = handleLocationDelete_v1(locations, id)
    /\ selectedLocation' = Null
    /\ isEditing' = FALSE
    /\ SaveEffect_v1(locations', isAdmin)
    /\ UNCHANGED <<isAdmin, name, description, categories, emoji, searchTerm,
                   selectedCategories, ls_isAdminSession, envVars, renderVars,
                   updatedLocation>>
    /\ exported' = Null /\ UNCHANGED <<NODE_ENV, reloadPending, partyVars>>

NextUpdate ==
    \/ \E u \in StoreRecords : CallUpdate(u)
    \/ \E u \in StoreRecords : CallUpdate_v1(u)
    \/ \E id \in 1..MaxId : CallDelete(id)
    \/ \E id \in 1..MaxId : CallDelete_v1(id)

SpecUpdate == InitUpdate /\ [][NextUpdate]_vars

(***************************************************************************)
(* Location Store and Session Gate, revision v1 (App.jsx 39-652).          *)
(*                                                                         *)
(* v1 keeps one category per record, edits the selected record in place    *)
(* of editor fields, adds a record at the map click, and saves for every   *)
(* visitor.  The map and the list view (view, 49) show the same handlers;  *)
(* switching between them changes nothing else and is left out.            *)
(***************************************************************************)
editorVars == <<name, description, categories, emoji>>

\* The seed resource as v1 reads it: one category per record.
SeedDocument_v1 ==
    [locations |->
        << [id |-> 1, position |-> Position, name |-> <<"A", "b">>,
            description |-> <<"b", "A">>, category |-> Scalar("Food"),
            emoji |-> Pin] >>]

\* What the admin types in the password input (387).
Passwords_v1 == {"", "guess", ADMIN_PASSWORD}

\* The categories the admin picks in the select (575-581).
EditorCategories_v1 == {"Bars"}

\* The category checkboxes the visitor changes.
FilterCategories_v1 == {"Bars"}

\* v1's load effect throws: it parses every persisted value (58-59).
loadThrows_v1(savedLocations) ==
    truthy(savedLocations) /\ ~parses(savedLocations)

\* Mutant: the page fetches the seed whatever the store holds.
PageLoad_v1_alwaysFetches(savedLocations) ==
    /\ selectedLocation' = Null
    /\ isEditing' = FALSE
    /\ isAdmin' = FALSE
    /\ UNCHANGED editorVars
    /\ searchTerm' = <<>>
    /\ selectedCategories' = {}
    /\ locations' = <<>> /\ fetchPending' = TRUE
    /\ showSaveIndicator' = FALSE
    /\ saveTimerPending' = {} /\ saveTimeoutRef' = NoTimer
    /\ UNCHANGED ls_locations

\* A page load of v1: the hooks start afresh (40-51), the load effect runs
\* (56-66), then the save effect with what was hydrated.
PageLoad_v1(savedLocations) ==
    /\ selectedLocation' = Null
    /\ isEditing' = FALSE
    /\ isAdmin' = FALSE
    /\ UNCHANGED editorVars
    /\ searchTerm' = <<>>
    /\ selectedCategories' = {}
    /\ IF truthy(savedLocations)
       THEN IF parses(savedLocations)
            THEN locations' = JSONparse(savedLocations) /\ fetchPending' = FALSE
            ELSE locations' = <<>> /\ fetchPending' = FALSE
       ELSE locations' = <<>> /\ fetchPending' = TRUE
    /\ showSaveIndicator' = FALSE
    /\ saveTimerPending' = {} /\ saveTimeoutRef' = NoTimer
    /\ IF Len(locations') > 0
       THEN ls_locations' = JSONstringify(locations')
       ELSE UNCHANGED ls_locations

\* The fetch of the seed resolves: setLocations(data.locations) (63).
FetchResolves_v1 ==
    /\ fetchPending
    /\ fetchPending' = FALSE
    /\ locations' = SeedDocument_v1.locations
    /\ SaveEffect_v1(locations', isAdmin)
    /\ lastEvent' = "fetched" /\ lastAlert' = ""
    /\ UNCHANGED <<selectedLocation, isEditing, isAdmin, editorVars,
                   searchTerm, selectedCategories, ls_isAdminSession, now,
                   renderVars, callVars>>
    /\ exported' = Null /\ UNCHANGED <<NODE_ENV, reloadPending, partyVars>>

\* The fetch fails: console.error (64).
FetchRejects_v1 ==
    /\ fetchPending
    /\ fetchPending' = FALSE
    /\ lastEvent' = "fetchFailed" /\ lastAlert' = ""
    /\ UNCHANGED <<locations, reactVars, searchTerm, selectedCategories,
                   storeVars, now, renderVars, callVars>>
    /\ downloaded' = Null /\ exported' = Null
    /\ UNCHANGED <<NODE_ENV, reloadPending, partyVars>>

\* The password form's submit (113-121, 383-398); shown while !isAdmin.
handleLogin_v1(password) ==
    /\ ~isAdmin
    /\ lastEvent' = "login"
    /\ IF password = ADMIN_PASSWORD
       THEN /\ isAdmin' = TRUE
            /\ SaveEffect_v1(locations, TRUE)
            /\ lastAlert' = ""
       ELSE /\ downloaded' = Null
            /\ lastAlert' = "Incorrect password"
            /\ UNCHANGED <<isAdmin, ls_locations, showSaveIndicator,
                           saveTimerPending, saveTimeoutRef>>
    /\ UNCHANGED <<locations, selectedLocation, isEditing, editorVars,
                   searchTerm, selectedCategories, ls_isAdminSession,
                   fetchPending, now, renderVars, callVars>>
    /\ exported' = Null /\ UNCHANGED <<NODE_ENV, reloadPending, partyVars>>

\* Mutant: the logout of v1 leaves the editing flag as it is.
handleLogout_v1_keepsEditing ==
    /\ isAdmin
    /\ isAdmin' = FALSE
    /\ selectedLocation' = Null
    /\ SaveEffect_v1(locations, FALSE)
    /\ lastEvent' = "logout" /\ lastAlert' = ""
    /\ UNCHANGED <<locations, isEditing, editorVars, searchTerm,
                   selectedCategories, ls_isAdminSession, fetchPending, now,
                   renderVars, callVars>>
    /\ exported' = Null /\ UNCHANGED <<NODE_ENV, reloadPending, partyVars>>

\* handleLogout of v1 (123-127): the flags only; the save effect follows
\* the change of isAdmin.
handleLogout_v1 ==
    /\ isAdmin
    /\ isAdmin' = FALSE
    /\ isEditing' = FALSE
    /\ selectedLocation' = Null
    /\ SaveEffect_v1(locations, FALSE)
    /\ lastEvent' = "logout" /\ lastAlert' = ""
    /\ UNCHANGED <<locations, editorVars, searchTerm, selectedCategories,
                   ls_isAdminSession, fetchPending, now, renderVars,
                   callVars>>
    /\ exported' = Null /\ UNCHANGED <<NODE_ENV, reloadPending, partyVars>>

\* The user reloads the page of v1.
Reload_v1 ==
    /\ PageLoad_v1(ls_locations)
    /\ HotDogPartyMount
    /\ lastEvent' = "reload" /\ lastAlert' = ""
    /\ UNCHANGED <<ls_isAdminSession, now, renderVars, callVars>>
    /\ downloaded' = Null /\ exported' = Null
    /\ UNCHANGED <<NODE_ENV, reloadPending>>

\* Mutant: the map click adds a record for every visitor.
handleMapClick_v1_ungated(t) ==
    /\ ~isEditing
    /\ Len(locations) < MaxRecords
    /\ LET newLocation ==
               [id |-> t, position |-> Position, name |-> <<>>,
                description |-> <<>>, category |-> Scalar("Food"),
                emoji |-> Pin]
       IN  /\ locations' = Append(locations, newLocation)
           /\ selectedLocation' = newLocation
    /\ isEditing' = TRUE
    /\ SaveEffect_v1(locations', isAdmin)
    /\ now' = t
    /\ lastEvent' = "mapClick" /\ lastAlert' = ""
    /\ UNCHANGED <<isAdmin, editorVars, searchTerm, selectedCategories,
                   ls_isAdminSession, fetchPending, renderVars,
                   callVars>>
    /\ exported' = Null /\ UNCHANGED <<NODE_ENV, reloadPending, partyVars>>

\* handleMapClick of v1 (139-153): the new record joins the collection.
handleMapClick_v1(t) ==
    /\ ~isEditing /\ isAdmin
    /\ Len(locations) < MaxRecords
    /\ LET newLocation ==
               [id |-> t, position |-> Position, name |-> <<>>,
                description |-> <<>>, category |-> Scalar("Food"),
                emoji |-> Pin]
       IN  /\ locations' = Append(locations, newLocation)
           /\ selectedLocation' = newLocation
    /\ isEditing' = TRUE
    /\ SaveEffect_v1(locations', isAdmin)
    /\ now' = t
    /\ lastEvent' = "mapClick" /\ lastAlert' = ""
    /\ UNCHANGED <<isAdmin, editorVars, searchTerm, selectedCategories,
                   ls_isAdminSession, fetchPending, renderVars,
                   callVars>>
    /\ exported' = Null /\ UNCHANGED <<NODE_ENV, reloadPending, partyVars>>

\* A click on a sidebar entry (486-490) or a marker (531-535).
ItemClick_v1(location) ==
    /\ selectedLocation' = location
    /\ isEditing' = isAdmin
    /\ lastEvent' = "markerClick" /\ lastAlert' = ""
    /\ UNCHANGED <<locations, isAdmin, editorVars, showSaveIndicator,
                   saveTimerPending, saveTimeoutRef, searchTerm, selectedCategories,
                   storeVars, fetchPending, now, renderVars, callVars>>
    /\ downloaded' = Null /\ exported' = Null
    /\ UNCHANGED <<NODE_ENV, reloadPending, partyVars>>

\* The edit form is in the popup of the selected record's marker (538-540).
FormShown_v1 ==
    /\ isAdmin /\ isEditing /\ selectedLocation # Null
    /\ ~filteredLocations_v1.threw
    /\ \E i \in 1..Len(filteredLocations_v1.value) :
          filteredLocations_v1.value[i].id = selectedLocation.id

\* The form's name input (559).
FormSetName_v1(text) ==
    /\ FormShown_v1
    /\ selectedLocation' = [selectedLocation EXCEPT !.name = text]
    /\ lastEvent' = "input" /\ lastAlert' = ""
    /\ UNCHANGED <<locations, isEditing, isAdmin, editorVars,
                   showSaveIndicator, saveTimerPending, saveTimeoutRef, searchTerm,
                   selectedCategories, storeVars, fetchPending, now,
                   renderVars, callVars>>
    /\ downloaded' = Null /\ exported' = Null
    /\ UNCHANGED <<NODE_ENV, reloadPending, partyVars>>

\* The form's category select (577).
FormSetCategory_v1(cat) ==
    /\ FormShown_v1
    /\ selectedLocation' = [selectedLocation EXCEPT !.category = Scalar(cat)]
    /\ lastEvent' = "input" /\ lastAlert' = ""
    /\ UNCHANGED <<locations, isEditing, isAdmin, editorVars,
                   showSaveIndicator, saveTimerPending, saveTimeoutRef, searchTerm,
                   selectedCategories, storeVars, fetchPending, now,
                   renderVars, callVars>>
    /\ downloaded' = Null /\ exported' = Null
    /\ UNCHANGED <<NODE_ENV, reloadPending, partyVars>>

\* The form's description textarea (568).
FormSetDescription_v1(text) ==
    /\ FormShown_v1
    /\ selectedLocation' = [selectedLocation EXCEPT !.description = text]
    /\ lastEvent' = "input" /\ lastAlert' = ""
    /\ UNCHANGED <<locations, isEditing, isAdmin, editorVars,
                   showSaveIndicator, saveTimerPending, saveTimeoutRef, searchTerm,
                   selectedCategories, storeVars, fetchPending, now,
                   renderVars, callVars>>
    /\ downloaded' = Null /\ exported' = Null
    /\ UNCHANGED <<NODE_ENV, reloadPending, partyVars>>

\* The form's emoji input and its suggestion buttons (590, 597).
FormSetEmoji_v1(text) ==
    /\ FormShown_v1
    /\ selectedLocation' = [selectedLocation EXCEPT !.emoji = text]
    /\ lastEvent' = "input" /\ lastAlert' = ""
    /\ UNCHANGED <<locations, isEditing, isAdmin, editorVars,
                   showSaveIndicator, saveTimerPending, saveTimeoutRef, searchTerm,
                   selectedCategories, storeVars, fetchPending, now,
                   renderVars, callVars>>
    /\ downloaded' = Null /\ exported' = Null
    /\ UNCHANGED <<NODE_ENV, reloadPending, partyVars>>

\* v1's search input (441).
SetSearchTerm_v1(text) ==
    /\ searchTerm' = text
    /\ lastEvent' = "input" /\ lastAlert' = ""
    /\ UNCHANGED <<locations, reactVars, selectedCategories, storeVars,
                   fetchPending, now, renderVars, callVars>>
    /\ downloaded' = Null /\ exported' = Null
    /\ UNCHANGED <<NODE_ENV, reloadPending, partyVars>>

\* v1's category checkboxes (465-473): a checkbox is checked exactly when
\* its category is in the Set, so its change adds a category that is out
\* and deletes one that is in.
CategoryFilterChange_v1(category) ==
    /\ selectedCategories' =
          IF category \in selectedCategories
          THEN selectedCategories \ {category}
          ELSE selectedCategories \cup {category}
    /\ lastEvent' = "input" /\ lastAlert' = ""
    /\ UNCHANGED <<locations, reactVars, searchTerm, storeVars, fetchPending,
                   now, renderVars, callVars>>
    /\ downloaded' = Null /\ exported' = Null
    /\ UNCHANGED <<NODE_ENV, reloadPending, partyVars>>

\* The form's submit (544-552); the name input is required (561).
FormSubmit_v1 ==
    /\ FormShown_v1
    /\ selectedLocation.name # <<>>
    /\ locations' = handleLocationUpdate_v1(locations, selectedLocation)
    /\ selectedLocation' = Null
    /\ isEditing' = FALSE
    /\ SaveEffect_v1(locations', isAdmin)
    /\ lastEvent' = "save" /\ lastAlert' = ""
    /\ UNCHANGED <<isAdmin, editorVars, searchTerm, selectedCategories,
                   ls_isAdminSession, fetchPending, now, renderVars,
                   callVars>>
    /\ exported' = Null /\ UNCHANGED <<NODE_ENV, reloadPending, partyVars>>

\* The form's Cancel (610-613).
FormCancel_v1 ==
    /\ FormShown_v1
    /\ selectedLocation' = Null
    /\ isEditing' = FALSE
    /\ lastEvent' = "cancel" /\ lastAlert' = ""
    /\ UNCHANGED <<locations, isAdmin, editorVars, showSaveIndicator,
                   saveTimerPending, saveTimeoutRef, searchTerm, selectedCategories,
                   storeVars, fetchPending, now, renderVars, callVars>>
    /\ downloaded' = Null /\ exported' = Null
    /\ UNCHANGED <<NODE_ENV, reloadPending, partyVars>>

\* The list view's Delete button (307-309), shown to the admin for the
\* records of a known category: handleLocationDelete (163-167).
ListDelete_v1(location) ==
    /\ isAdmin
    /\ ~location.category.isArray
    /\ location.category.value \in Range(CATEGORIES_v1)
    /\ locations' = handleLocationDelete_v1(locations, location.id)
    /\ selectedLocation' = Null
    /\ isEditing' = FALSE
    /\ SaveEffect_v1(locations', isAdmin)
    /\ lastEvent' = "delete" /\ lastAlert' = ""
    /\ UNCHANGED <<isAdmin, editorVars, searchTerm, selectedCategories,
                   ls_isAdminSession, fetchPending, now, renderVars,
                   callVars>>
    /\ exported' = Null /\ UNCHANGED <<NODE_ENV, reloadPending, partyVars>>

\* The first visit of v1's page: an empty store.
InitEarly ==
    /\ FreshPage
    /\ locations = <<>>
    /\ ls_locations = Null
    /\ ls_isAdminSession = Null
    /\ fetchPending = TRUE
    /\ now = FirstNow
    /\ lastEvent = "load" /\ lastAlert = ""
    /\ NODE_ENV = "production" /\ downloaded = Null
    /\ hotdogs = <<>> /\ isPartyTime = FALSE /\ partyTimers = <<>>
    /\ rendered = FALSE /\ shown = NotRendered /\ shown_v1 = NotRendered
    /\ applied = "none" /\ prevLocations = <<>> /\ updatedLocation = Null
    /\ deletedId = 0 /\ exported = Null /\ reloadPending = FALSE

NextEarly ==
    \/ FetchResolves_v1
    \/ FetchRejects_v1
    \/ \E password \in Passwords_v1 : handleLogin_v1(password)
    \/ handleLogout_v1
    \/ Reload_v1
    \/ \E t \in now..MaxNow : handleMapClick_v1(t)
    \/ \E i \in 1..Len(filteredLocations_v1.value) :
          ItemClick_v1(filteredLocations_v1.value[i])
    \/ \E text \in EditorNames : FormSetName_v1(text)
    \/ \E text \in EditorDescriptions : FormSetDescription_v1(text)
    \/ \E cat \in EditorCategories_v1 : FormSetCategory_v1(cat)
    \/ \E text \in EditorEmojis : FormSetEmoji_v1(text)
    \/ FormSubmit_v1
    \/ FormCancel_v1
    \/ \E i \in 1..Len(filteredLocations_v1.value) :
          ListDelete_v1(filteredLocations_v1.value[i])
    \/ \E text \in SearchTerms : SetSearchTerm_v1(text)
    \/ \E category \in FilterCategories_v1 : CategoryFilterChange_v1(category)
    \/ isAdmin /\ handleExportLocations_v1
    \/ SaveTimerFires

SpecEarly == InitEarly /\ [][NextEarly]_vars

(***************************************************************************)
(* Either revision of the application on a first visit: the revision that  *)
(* was deployed is fixed at the start and stays.                           *)
(***************************************************************************)
InitBoth ==
    /\ FreshPage
    /\ locations = <<>>
    /\ ls_locations = Null
    /\ ls_isAdminSession = Null
    /\ fetchPending = TRUE
    /\ now = FirstNow
    /\ lastEvent = "load" /\ lastAlert = ""
    /\ NODE_ENV = "production" /\ downloaded = Null
    /\ hotdogs = <<>> /\ isPartyTime = FALSE /\ partyTimers = <<>>
    /\ rendered = FALSE /\ shown = NotRendered /\ shown_v1 = NotRendered
    /\ applied \in {"app_v1", "app_v2"}
    /\ prevLocations = <<>> /\ updatedLocation = Null
    /\ deletedId = 0 /\ exported = Null /\ reloadPending = FALSE

NextBoth ==
    \/ applied = "app_v2" /\ Next
    \/ applied = "app_v1" /\ NextEarly

SpecBoth == InitBoth /\ [][NextBoth]_vars

(***************************************************************************)
(* Either revision as either build: process.env.NODE_ENV is fixed when the *)
(* bundle is made; the other specifications follow the production build,   *)
(* which runs every statement of the save effect.                          *)
(***************************************************************************)
InitBuild ==
    /\ FreshPage
    /\ locations = <<>>
    /\ ls_locations = Null
    /\ ls_isAdminSession = Null
    /\ fetchPending = TRUE
    /\ now = FirstNow
    /\ lastEvent = "load" /\ lastAlert = ""
    /\ NODE_ENV \in BuildModes /\ downloaded = Null
    /\ hotdogs = <<>> /\ isPartyTime = FALSE /\ partyTimers = <<>>
    /\ rendered = FALSE /\ shown = NotRendered /\ shown_v1 = NotRendered
    /\ applied \in {"app_v1", "app_v2"}
    /\ prevLocations = <<>> /\ updatedLocation = Null
    /\ deletedId = 0 /\ exported = Null /\ reloadPending = FALSE

SpecBuild == InitBuild /\ [][NextBoth]_vars

(***************************************************************************)
(* The startup load as a function of what the persistent store holds:      *)
(* Init draws the store, each revision's page is mounted on it, the seed   *)
(* arrives when the mount asked for it, and export is called on the        *)
(* collection the load gave.                                               *)
(***************************************************************************)
\* What setItem('locations', ..) has left in the store: never an empty
\* collection (the save effects write non-empty collections only).
PersistedCollections ==
    {Null} \cup {JSONstringify(c) : c \in StoreCollections \ {<<>>}}

SessionMarkers == {Null, Item("true")}

\* A value of the 'locations' key that is not JSON.
MalformedItem == Item("[{")

\* The empty string as the value of the 'locations' key.
EmptyItem == Item("")

InitLoad ==
    /\ selectedLocation = Null /\ isEditing = FALSE /\ isAdmin = FALSE
    /\ name = <<>> /\ description = <<>> /\ categories = <<>> /\ emoji = Pin
    /\ showSaveIndicator = FALSE /\ saveTimerPending = {} /\ saveTimeoutRef = NoTimer
    /\ locations = <<>> /\ searchTerm = <<>> /\ selectedCategories = {}
    /\ ls_locations \in PersistedCollections \cup {MalformedItem, EmptyItem}
    /\ ls_isAdminSession \in SessionMarkers
    /\ fetchPending = FALSE /\ now = FirstNow
    /\ lastEvent = "none" /\ lastAlert = ""
    /\ NODE_ENV = "production" /\ downloaded = Null
    /\ hotdogs = <<>> /\ isPartyTime = FALSE /\ partyTimers = <<>>
    /\ rendered = FALSE /\ shown = NotRendered /\ shown_v1 = NotRendered
    /\ applied = "none" /\ prevLocations = <<>> /\ updatedLocation = Null
    /\ deletedId = 0 /\ exported = Null /\ reloadPending = FALSE

\* v2's page is opened on the store (751-798).
Mount ==
    /\ applied = "none"
    /\ applied' = "load_v2"
    /\ PageLoad(ls_locations, ls_isAdminSession)
    /\ HotDogPartyMount
    /\ lastEvent' = IF loadThrows(ls_locations, ls_isAdminSession)
                    THEN "loadThrew" ELSE "load"
    /\ lastAlert' = ""
    /\ UNCHANGED <<storeVars, now, renderVars, prevLocations,
                   updatedLocation, deletedId>>
    /\ downloaded' = Null /\ exported' = Null
    /\ UNCHANGED <<NODE_ENV, reloadPending>>

\* v1's page is opened on the store (40-102).
Mount_v1 ==
    /\ applied = "none"
    /\ applied' = "load_v1"
    /\ PageLoad_v1(ls_locations)
    /\ HotDogPartyMount
    /\ lastEvent' = IF loadThrows_v1(ls_locations)
                    THEN "loadThrew" ELSE "load"
    /\ lastAlert' = ""
    /\ UNCHANGED <<ls_isAdminSession, now, renderVars, prevLocations,
                   updatedLocation, deletedId>>
    /\ downloaded' = Null /\ exported' = Null
    /\ UNCHANGED <<NODE_ENV, reloadPending>>

\* Export called on what the load gave, once the load is complete; a load
\* that threw leaves no page to call it from.
CallExport ==
    /\ applied = "load_v2" /\ ~fetchPending /\ lastEvent # "loadThrew"
    /\ handleExportLocations

CallExport_v1 ==
    /\ applied = "load_v1" /\ ~fetchPending /\ lastEvent # "loadThrew"
    /\ handleExportLocations_v1

NextLoad ==
    \/ Mount
    \/ Mount_v1
    \/ applied = "load_v2" /\ FetchResolves
    \/ applied = "load_v1" /\ FetchResolves_v1
    \/ CallExport
    \/ CallExport_v1

SpecLoad == InitLoad /\ [][NextLoad]_vars

(***************************************************************************)
(* HotDogParty (components/HotDogParty.jsx 3-59), mounted by both          *)
(* revisions for the life of the page.  A timer is the number of seconds   *)
(* it has left.                                                            *)
(***************************************************************************)
\* Array.from({ length: 30 }, ...) (12).
PartySize == 30

\* setTimeout(..., 5000) (24-27), in seconds.
PartyDelay == 5

\* Math.random() returns k / RandomSteps for some k in 0..MaxDraws.
RandomSteps == MaxDraws + 1

\* Every number of a hot dog is kept exactly, as the numerator of a fraction
\* whose denominator is PartyUnit: 0.875 is 7 over 8.
PartyUnit == 2 * RandomSteps

\* The numerators k of the values Math.random() returns.
RandomValues == 0..MaxDraws

\* The 5 * 30 values Math.random() returns during one call of startParty,
\* in the order of the calls, as numerators over RandomSteps; two numbers
\* pick the stream.
RandomStream(a, b) ==
    [n \in 1..(5 * PartySize) |-> (a + b * n) % RandomSteps]

RandomStreams == {RandomStream(a, b) : a \in 0..MaxDraws, b \in 0..MaxDraws}

\* The hot dogs startParty creates from the values of a stream (12-19):
\* with r = k / RandomSteps, left and top are r * 100, scale is
\* 0.5 + r * 1.5, rotation is r * 360 and delay is r * 0.5, each written
\* over PartyUnit.
newHotdogs(random) ==
    [k \in 1..PartySize |->
        [id |-> k - 1,
         left |-> random[5 * (k - 1) + 1] * 200,
         top |-> random[5 * (k - 1) + 2] * 200,
         scale |-> RandomSteps + random[5 * (k - 1) + 3] * 3,
         rotation |-> random[5 * (k - 1) + 4] * 720,
         delay |-> random[5 * (k - 1) + 5]]]

\* Mutant: startParty without its first line.
startParty_unguarded(random) ==
    /\ isPartyTime' = TRUE
    /\ hotdogs' = newHotdogs(random)
    /\ partyTimers' = Append(partyTimers, PartyDelay)
    /\ lastEvent' = "startParty"
    /\ UNCHANGED <<locations, filterInputs, reactVars, storeVars, fetchPending,
                   now, lastAlert, renderVars, callVars, buildVars, pageVars>>

\* startParty (7-28): nothing while a party is in progress; else the flag
\* is set, 30 hot dogs are created and the end-of-party timer is started.
startParty(random) ==
    /\ IF isPartyTime
       THEN UNCHANGED partyVars
       ELSE /\ isPartyTime' = TRUE
            /\ hotdogs' = newHotdogs(random)
            /\ partyTimers' = Append(partyTimers, PartyDelay)
    /\ lastEvent' = "startParty"
    /\ UNCHANGED <<locations, filterInputs, reactVars, storeVars, fetchPending,
                   now, lastAlert, renderVars, callVars, buildVars, pageVars>>

\* A second passes: every pending timer has a second less to wait.
PartyTick ==
    /\ \E i \in 1..Len(partyTimers) : partyTimers[i] > 0
    /\ partyTimers' =
          [i \in 1..Len(partyTimers) |->
              IF partyTimers[i] > 0 THEN partyTimers[i] - 1 ELSE 0]
    /\ lastEvent' = "partyTick"
    /\ UNCHANGED <<locations, filterInputs, reactVars, storeVars, fetchPending,
                   now, lastAlert, renderVars, callVars, buildVars, pageVars, hotdogs,
                   isPartyTime>>

\* partyTimers without its i-th element.
WithoutTimer(i) ==
    SubSeq(partyTimers, 1, i - 1) \o SubSeq(partyTimers, i + 1, Len(partyTimers))

\* The callback of a timer that is due (24-27).
endParty ==
    /\ \E i \in 1..Len(partyTimers) :
          /\ partyTimers[i] = 0
          /\ partyTimers' = WithoutTimer(i)
    /\ hotdogs' = <<>>
    /\ isPartyTime' = FALSE
    /\ lastEvent' = "endParty"
    /\ UNCHANGED <<locations, filterInputs, reactVars, storeVars, fetchPending,
                   now, lastAlert, renderVars, callVars, buildVars, pageVars>>

\* The page of either revision, just loaded on an empty store.
InitParty ==
    /\ FreshPage
    /\ locations = <<>>
    /\ ls_locations = Null
    /\ ls_isAdminSession = Null
    /\ fetchPending = TRUE
    /\ now = FirstNow
    /\ lastEvent = "load" /\ lastAlert = ""
    /\ NODE_ENV = "production" /\ downloaded = Null
    /\ hotdogs = <<>> /\ isPartyTime = FALSE /\ partyTimers = <<>>
    /\ rendered = FALSE /\ shown = NotRendered /\ shown_v1 = NotRendered
    /\ applied \in {"app_v1", "app_v2"}
    /\ prevLocations = <<>> /\ updatedLocation = Null
    /\ deletedId = 0 /\ exported = Null /\ reloadPending = FALSE

\* The party button, its timer, and what the page around it does to the
\* component: the page load, with the seed fetch the load asks for.
NextParty ==
    \/ \E random \in RandomStreams : startParty(random)
    \/ PartyTick
    \/ endParty
    \/ applied = "app_v2" /\ Reload
    \/ applied = "app_v1" /\ Reload_v1
    \/ applied = "app_v2" /\ FetchResolves
    \/ applied = "app_v1" /\ FetchResolves_v1
    \/ applied = "app_v2" /\ FetchRejects
    \/ applied = "app_v1" /\ FetchRejects_v1

\* Time passes and the browser runs the callback of a timer that is due.
SpecParty ==
    /\ InitParty
    /\ [][NextParty]_vars
    /\ WF_vars(PartyTick)
    /\ WF_vars(endParty)

(***************************************************************************)
(* What the specification says of the filter, stated apart from the code:  *)
(* letters are compared through a table of case pairs, categories as sets. *)
(***************************************************************************)
CasePairs == {{"a", "A"}, {"b", "B"}, {"c", "C"}}

EqualIgnoringCase(x, y) == x = y \/ {x, y} \in CasePairs

\* t occurs in s at some offset, letter by letter, ignoring case.
OccursIn(t, s) ==
    \E k \in 0..(Len(s) - Len(t)) :
        \A j \in 1..Len(t) : EqualIgnoringCase(s[k + j], t[j])

TextMatch(r) ==
    \/ OccursIn(searchTerm, r.name)
    \/ Has(r, "description") /\ OccursIn(searchTerm, r.description)

CategorySet(r) ==
    IF r.category.isArray THEN Range(r.category.items) ELSE {r.category.value}

CategoryMatch(r) ==
    selectedCategories = {} \/ CategorySet(r) \cap selectedCategories # {}

Included(r, out) == \E j \in 1..Len(out) : out[j] = r

\* Every record carries the fields of the data model (spec.md 3).
WellFormed(coll) == \A i \in 1..Len(coll) : Has(coll[i], "description")

\* Revision v1 stores one scalar category per record.
ScalarCategories(coll) == \A i \in 1..Len(coll) : ~coll[i].category.isArray

\* out is a subsequence of coll: an increasing choice of coll's positions.
IsSubsequence(out, coll) ==
    \E f \in [1..Len(out) -> 1..Len(coll)] :
        /\ \A j \in 1..Len(out) : out[j] = coll[f[j]]
        /\ \A j \in 1..Len(out), k \in 1..Len(out) : j < k => f[j] < f[k]

\* C1: the filter returns on every well-formed collection, and whenever it
\* returns, a record is in the result iff it passes the text match AND the
\* category match (v1: on collections of scalar categories).
C1_IncludedIffBoth ==
    rendered =>
        /\ WellFormed(locations) => ~shown.threw /\ ~shown_v1.threw
        /\ ~shown.threw =>
              \A i \in 1..Len(locations) :
                  Included(locations[i], shown.value)
                      <=> (TextMatch(locations[i]) /\ CategoryMatch(locations[i]))
        /\ (~shown_v1.threw /\ ScalarCategories(locations)) =>
              \A i \in 1..Len(locations) :
                  Included(locations[i], shown_v1.value)
                      <=> (TextMatch(locations[i]) /\ CategoryMatch(locations[i]))

\* A record whose category is selected but whose text does not match is left
\* out, beside a record that passes both.
C1_Witness ==
    /\ rendered /\ WellFormed(locations) /\ selectedCategories # {}
    /\ \E i \in 1..Len(locations) :
          /\ CategorySet(locations[i]) \cap selectedCategories # {}
          /\ ~TextMatch(locations[i])
          /\ ~Included(locations[i], shown.value)
    /\ Len(shown.value) = 1

\* C2: with no category selected the result is exactly the records passing
\* the text match; otherwise, among the records passing the text match,
\* those with at least one category selected; the Cafe/Bar example.
C2_CategoryMatch ==
    (rendered /\ ~shown.threw) =>
        /\ selectedCategories = {} =>
              /\ shown.value = SelectSeq(locations, TextMatch)
              /\ shown_v1.value = SelectSeq(locations, TextMatch)
        /\ selectedCategories # {} =>
              \A i \in 1..Len(locations) :
                  TextMatch(locations[i]) =>
                      /\ Included(locations[i], shown.value)
                            <=> (CategorySet(locations[i]) \cap selectedCategories # {})
                      /\ ~locations[i].category.isArray =>
                            (Included(locations[i], shown_v1.value)
                                <=> (locations[i].category.value \in selectedCategories))
        /\ (/\ locations = ScenarioCollection
            /\ searchTerm = <<>>
            /\ selectedCategories = {"Food"}) =>
              shown = Returned(<<ScenarioCollection[1]>>)

\* The Cafe/Bar example has been rendered with only Food selected.
C2_Witness ==
    /\ rendered
    /\ locations = ScenarioCollection
    /\ searchTerm = <<>>
    /\ selectedCategories = {"Food"}
    /\ shown = Returned(<<ScenarioCollection[1]>>)

\* A record with two categories passes on its second one alone.
C2_WitnessOr ==
    /\ rendered /\ ~shown.threw
    /\ selectedCategories = {"Beverages"}
    /\ \E i \in 1..Len(locations) :
          /\ locations[i].category = List(<<"Food", "Beverages">>)
          /\ Included(locations[i], shown.value)

\* C3: among the records passing the category match, a record is in the
\* result iff the search term occurs, ignoring case, in its name or in its
\* description (both revisions).
C3_TextMatch ==
    (rendered /\ ~shown.threw) =>
        \A i \in 1..Len(locations) :
            /\ CategoryMatch(locations[i]) =>
                  (Included(locations[i], shown.value)
                      <=> \/ OccursIn(searchTerm, locations[i].name)
                          \/ /\ Has(locations[i], "description")
                             /\ OccursIn(searchTerm, locations[i].description))
            /\ (CategoryMatch(locations[i]) /\ ~locations[i].category.isArray) =>
                  (Included(locations[i], shown_v1.value)
                      <=> \/ OccursIn(searchTerm, locations[i].name)
                          \/ /\ Has(locations[i], "description")
                             /\ OccursIn(searchTerm, locations[i].description))

\* A record is kept through its description alone, the term differing from
\* the description in case and not being a prefix of it.
C3_Witness ==
    /\ rendered /\ ~shown.threw
    /\ \E i \in 1..Len(locations) :
          /\ Has(locations[i], "description")
          /\ ~OccursIn(searchTerm, locations[i].name)
          /\ searchTerm = <<"a">>
          /\ locations[i].description = <<"b", "A">>
          /\ Included(locations[i], shown.value)
          /\ Included(locations[i], shown_v1.value) \/ locations[i].category.isArray

\* C4 (state part): the result is a subsequence of the collection, in the
\* collection's order.
C4_Subsequence ==
    (rendered /\ ~shown.threw) =>
        /\ IsSubsequence(shown.value, locations)
        /\ IsSubsequence(shown_v1.value, locations)

\* C4: the result is a subsequence of the collection in its order, and
\* evaluating the filter changes none of its three inputs.
C4_PureOrderStable ==
    /\ []C4_Subsequence
    /\ [][Render => UNCHANGED <<locations, searchTerm, selectedCategories>>]_vars

\* Two records are kept, in the collection's order.
C4_Witness ==
    /\ rendered /\ ~shown.threw
    /\ Len(locations) = 2
    /\ shown.value = locations
    /\ locations[1] # locations[2]

\* C5 (as claimed): on the Cafe/Bar collection as given, with search term
\* "bar" and no category selected, the filter returns exactly record 2.
C5_ScenarioBar ==
    (/\ rendered
     /\ locations = ScenarioCollection
     /\ searchTerm = ScenarioTerm
     /\ selectedCategories = {}) =>
        /\ shown = Returned(<<ScenarioCollection[2]>>)
        /\ shown_v1 = Returned(<<ScenarioCollection[2]>>)

\* C6 (as claimed): after every create, update or delete of an authenticated
\* session the persisted 'locations' value is the serialization of the
\* in-memory collection, also when a delete removes the last record.
C6_StoreMirrorsCollection ==
    (lastEvent \in {"save", "delete"} /\ isAdmin) =>
        ls_locations = JSONstringify(locations)

\* C7 (as claimed): a reload after a successful login leaves the
\* authenticated flag true once the startup load has run.
C7_ReloadRetainsAdmin ==
    [][(Reload /\ isAdmin) => isAdmin']_vars

\* C7 (amended): a reload after a successful login leaves the authenticated
\* flag false; the session marker stays 'true', and a persisted collection
\* is hydrated without a fetch.
C7_ReloadDropsAdmin ==
    [][(Reload /\ isAdmin) =>
         /\ ~isAdmin'
         /\ ls_isAdminSession' = Item("true")
         /\ ls_locations # Null =>
               (locations' = JSONparse(ls_locations) /\ ~fetchPending')]_vars

\* The page was reloaded in a logged-in session that had saved a collection.
C7_Witness ==
    /\ lastEvent = "reload"
    /\ ls_isAdminSession = Item("true")
    /\ ~isAdmin
    /\ ls_locations # Null
    /\ locations = JSONparse(ls_locations)

\* C8 (as claimed): the record an editor Save writes has at least one
\* category, ["Food"] when the admin cleared every selection.
C8_SavedRecordHasCategory ==
    [][EditorSave =>
         \E i \in 1..Len(locations') :
             /\ locations'[i].id = selectedLocation.id
             /\ locations'[i].category =
                    List(IF Len(categories) > 0 THEN categories
                         ELSE <<"Food">>)]_vars

\* C9: v2's update called with a record whose id is in the collection
\* replaces the first record of that id where it stands and changes nothing
\* else; called with an id the collection lacks, it appends the record.
C9_UpdateUpserts ==
    applied = "v2" =>
        LET hit == {i \in 1..Len(prevLocations) :
                       prevLocations[i].id = updatedLocation.id}
        IN  IF hit # {}
            THEN /\ Len(locations) = Len(prevLocations)
                 /\ \E i \in hit :
                       /\ \A j \in hit : i <= j
                       /\ locations[i] = updatedLocation
                       /\ \A j \in 1..Len(locations) :
                             j # i => locations[j] = prevLocations[j]
            ELSE /\ Len(locations) = Len(prevLocations) + 1
                 /\ locations[Len(locations)] = updatedLocation
                 /\ \A j \in 1..Len(prevLocations) :
                       locations[j] = prevLocations[j]

\* A record was replaced at the second position of a two-record collection.
C9_Witness ==
    /\ applied = "v2"
    /\ Len(prevLocations) = 2
    /\ Len(locations) = 2
    /\ prevLocations[2].id = updatedLocation.id
    /\ prevLocations[1].id # updatedLocation.id
    /\ prevLocations[2] # updatedLocation
    /\ locations = <<prevLocations[1], updatedLocation>>

\* A record of a new id was appended to a non-empty collection.
C9_WitnessAppend ==
    /\ applied = "v2"
    /\ Len(prevLocations) = 1
    /\ prevLocations[1].id # updatedLocation.id
    /\ locations = <<prevLocations[1], updatedLocation>>

\* C10: update called with an id no record has leaves every record of the
\* collection as it was, at its position, in both revisions; in v1 the
\* collection is unchanged altogether.
C10_UnknownIdKeepsRecords ==
    (/\ applied \in {"v1", "v2"}
     /\ \A i \in 1..Len(prevLocations) :
           prevLocations[i].id # updatedLocation.id) =>
        /\ Len(locations) >= Len(prevLocations)
        /\ \A i \in 1..Len(prevLocations) : locations[i] = prevLocations[i]
        /\ applied = "v1" => locations = prevLocations

\* v1's update was called on a two-record collection with an id it lacks.
C10_Witness ==
    /\ applied = "v1"
    /\ Len(prevLocations) = 2
    /\ \A i \in 1..Len(prevLocations) :
          prevLocations[i].id # updatedLocation.id
    /\ locations = prevLocations

\* C11: delete(id) leaves no record of that id and every other record as it
\* was and in its original order, in both revisions; with an id no record
\* has, the collection is unchanged.
C11_DeleteRemovesOnlyId ==
    applied \in {"delete_v1", "delete_v2"} =>
        LET others == {i \in 1..Len(prevLocations) :
                          prevLocations[i].id # deletedId}
            \* position in the result of the record that stood at i
            rank(i) == Cardinality({j \in others : j <= i})
        IN  /\ \A i \in 1..Len(locations) : locations[i].id # deletedId
            /\ Len(locations) = Cardinality(others)
            /\ \A i \in others : locations[rank(i)] = prevLocations[i]
            /\ others = 1..Len(prevLocations) => locations = prevLocations

\* The second of two records was kept while the first, of the id, went.
C11_Witness ==
    /\ applied \in {"delete_v1", "delete_v2"}
    /\ Len(prevLocations) = 2
    /\ prevLocations[1].id = deletedId
    /\ prevLocations[2].id # deletedId
    /\ locations = <<prevLocations[2]>>

\* Delete was called with an id that no record of the collection has.
C11_WitnessAbsent ==
    /\ applied = "delete_v1"
    /\ Len(prevLocations) = 2
    /\ \A i \in 1..2 : prevLocations[i].id # deletedId
    /\ locations = prevLocations

\* C12 (as claimed): a create (v2: a map click and the Save that follows it)
\* and then a delete of the id just created give back the collection as it
\* was before the create.
C12_CreateThenDelete ==
    [][(lastEvent = "mapClick" /\ EditorSave) =>
          handleLocationDelete(locations', selectedLocation.id) = locations]_vars

\* C13 (as claimed): after any sequence of load, create, update and delete
\* the ids of the records of the collection are pairwise distinct.
C13_IdsDistinct ==
    \A i, j \in 1..Len(locations) :
        locations[i].id = locations[j].id => i = j

\* C14: in v2 the persisted 'locations' value is written only while the
\* admin flag is true, and then with the serialization of the collection;
\* while the flag is false no step writes it (the seed's arrival included),
\* and the only other change of the key is its removal by logout.
C14_WritesOnlyWhenAdmin ==
    [][/\ (ls_locations' # ls_locations /\ ls_locations' # Null) =>
             (isAdmin' /\ ls_locations' = JSONstringify(locations'))
       /\ (~isAdmin /\ ~isAdmin') => ls_locations' = ls_locations
       /\ (ls_locations' # ls_locations /\ ls_locations' = Null) =>
             (isAdmin /\ lastEvent' = "logout")]_vars

\* The seed arrived in a session that is not authenticated: the collection
\* changed and the store was left empty.
C14_Witness ==
    /\ lastEvent = "fetched"
    /\ ~isAdmin
    /\ locations = SeedDocument.locations
    /\ ls_locations = Null

\* C15: the startup load reads the store first.  With a persisted
\* collection (and, in v2, the session marker 'true') the collection is
\* hydrated from it and no fetch is issued; otherwise the seed is fetched,
\* and its locations field becomes the collection when it arrives.  The
\* persisted collection is one that was written by the save effect; a key
\* that holds the empty text counts as absent, the test being one of
\* truthiness (789, 57).
C15_StartupLoad ==
    [][/\ (Mount /\ ls_locations \in PersistedCollections) =>
             IF ls_locations # Null /\ ls_isAdminSession = Item("true")
             THEN locations' = JSONparse(ls_locations) /\ ~fetchPending'
             ELSE locations' = <<>> /\ fetchPending'
       /\ (Mount_v1 /\ ls_locations \in PersistedCollections) =>
             IF ls_locations # Null
             THEN locations' = JSONparse(ls_locations) /\ ~fetchPending'
             ELSE locations' = <<>> /\ fetchPending'
       /\ ((Mount \/ Mount_v1) /\ ls_locations = EmptyItem) =>
             (locations' = <<>> /\ fetchPending' /\ lastEvent' = "load")
       /\ (applied = "load_v2" /\ FetchResolves) =>
             (locations' = SeedDocument.locations /\ ~fetchPending')
       /\ (applied = "load_v1" /\ FetchResolves_v1) =>
             (locations' = SeedDocument_v1.locations /\ ~fetchPending')]_vars

\* v1's page hydrated two persisted records and issued no fetch.
C15_Witness ==
    /\ applied = "load_v1"
    /\ lastEvent = "load"
    /\ ls_locations # Null
    /\ Len(locations) = 2
    /\ locations = JSONparse(ls_locations)
    /\ ~fetchPending

\* v2's page found a persisted collection and no session marker: the seed
\* was fetched and became the collection.
C15_WitnessSeed ==
    /\ applied = "load_v2"
    /\ lastEvent = "fetched"
    /\ ls_locations \in PersistedCollections \ {Null}
    /\ ls_isAdminSession = Null
    /\ locations = SeedDocument.locations
    /\ locations # JSONparse(ls_locations)

\* v2's page found the session marker and the empty text under 'locations':
\* nothing was parsed and the seed is asked for.
C15_WitnessEmpty ==
    /\ applied = "load_v2"
    /\ lastEvent = "load"
    /\ ls_locations = EmptyItem
    /\ ls_isAdminSession = Item("true")
    /\ locations = <<>>
    /\ fetchPending

C16_ForgetsUnlessLogin ==
    [][/\ handleLogout =>
             /\ ~isAdmin'
             /\ ls_isAdminSession' = Null
             /\ ls_locations' = Null
             /\ reloadPending'
             /\ UNCHANGED locations
       /\ (reloadPending /\ ~isAdmin /\ lastEvent' # "login") =>
             /\ ~isAdmin'
             /\ UNCHANGED storeVars
       /\ (reloadPending /\ ~reloadPending') => lastEvent' = "reload"
       /\ (reloadPending /\ Reload /\ ls_isAdminSession = Null) =>
             /\ locations' = <<>>
             /\ fetchPending']_vars

\* The admin has just logged out of a session in which the collection was
\* edited: the flag is false and both keys are gone, while the page that is
\* about to be replaced still holds the edited collection.
C16_WitnessLoggedOut ==
    /\ lastEvent = "logout"
    /\ reloadPending
    /\ ~isAdmin
    /\ ls_isAdminSession = Null
    /\ ls_locations = Null
    /\ locations # <<>>
    /\ locations # SeedDocument.locations

\* A login on the page that is about to be replaced: the edited collection
\* is persisted again, under the marker, before the page is loaded.
C16_WitnessLoginBeforeLoad ==
    /\ lastEvent = "login"
    /\ reloadPending
    /\ isAdmin
    /\ ls_isAdminSession = Item("true")
    /\ ls_locations = JSONstringify(locations)
    /\ locations # SeedDocument.locations

\* The page was loaded again with nothing persisted: the collection is
\* empty and the seed is asked for.
C16_WitnessReloaded ==
    /\ lastEvent = "reload"
    /\ ~reloadPending
    /\ ~isAdmin
    /\ ls_isAdminSession = Null
    /\ ls_locations = Null
    /\ locations = <<>>
    /\ fetchPending

\* C17: a non-empty collection of an authenticated session, which the save
\* effect has written, survives a reload: the page hydrates the same
\* records, with the same fields, in the same order, and issues no fetch.
C17_ReloadRoundTrip ==
    [][(Reload /\ isAdmin /\ locations # <<>>) =>
          /\ locations' = locations
          /\ ~fetchPending'
          /\ UNCHANGED storeVars]_vars

\* The page was reloaded on a saved collection of two records, the second
\* one created by the admin.
C17_Witness ==
    /\ lastEvent = "reload"
    /\ ls_isAdminSession = Item("true")
    /\ Len(locations) = 2
    /\ locations[1] = SeedDocument.locations[1]
    /\ locations[2].id >= FirstNow
    /\ ls_locations = JSONstringify(locations)

\* A step that sets the admin flag is a login of the page's revision with
\* the fixed password: the lock button's prompt in v2, the form in v1.
C18_OnlyThePassword ==
    (~isAdmin /\ isAdmin') =>
        \/ /\ applied = "app_v2"
           /\ LoginClick([cancelled |-> FALSE, text |-> ADMIN_PASSWORD])
        \/ /\ applied = "app_v1"
           /\ handleLogin_v1(ADMIN_PASSWORD)

\* v1's form: every submitted password that differs from the fixed one,
\* the empty one included, leaves the flag false and shows the alert.
C18_FormAlerts ==
    \A password \in Passwords_v1 :
        (/\ applied = "app_v1"
         /\ handleLogin_v1(password)
         /\ password # ADMIN_PASSWORD) =>
            (~isAdmin' /\ lastAlert' = "Incorrect password")

\* C18 (as claimed): in both revisions the admin flag becomes true only
\* through a login with the fixed password, and every login with an entered
\* password that differs from it leaves the flag false and shows an alert.
C18_EveryMismatchAlerts ==
    [][/\ C18_OnlyThePassword
       /\ C18_FormAlerts
       /\ \A password \in PromptResults :
             (/\ applied = "app_v2"
              /\ LoginClick(password)
              /\ ~password.cancelled
              /\ password.text # ADMIN_PASSWORD) =>
                 (~isAdmin' /\ lastAlert' = "Incorrect password")]_vars

\* C18 (amended): in both revisions the admin flag becomes true only
\* through a login with the fixed password, and a login with anything else
\* leaves the flag false.  v1's form alerts on every mismatch, the empty
\* password included; v2 shows the alert only when the entered password is
\* not empty: an empty entry, like a cancelled prompt, shows nothing.
C18_LoginGate ==
    [][/\ C18_OnlyThePassword
       /\ C18_FormAlerts
       /\ \A password \in PromptResults :
             (/\ applied = "app_v2"
              /\ LoginClick(password)
              /\ (password.cancelled \/ password.text # ADMIN_PASSWORD)) =>
                 /\ ~isAdmin'
                 /\ lastAlert' =
                       IF ~password.cancelled /\ password.text # ""
                       THEN "Incorrect password" ELSE ""]_vars

\* v2: a wrong password was entered in the prompt: the alert is up and the
\* flag is false.
C18_Witness ==
    /\ applied = "app_v2"
    /\ lastEvent = "login"
    /\ lastAlert = "Incorrect password"
    /\ ~isAdmin
    /\ ls_isAdminSession = Null

\* v2: an empty or cancelled prompt: no alert, the flag is false.
C18_WitnessSilent ==
    /\ applied = "app_v2"
    /\ lastEvent = "login"
    /\ lastAlert = ""
    /\ ~isAdmin

\* v1: the form was submitted with a password that is not the fixed one:
\* the alert is up and the flag is false.
C18_WitnessForm ==
    /\ applied = "app_v1"
    /\ lastEvent = "login"
    /\ lastAlert = "Incorrect password"
    /\ ~isAdmin

\* A login with the fixed password in each revision: the flag is true.
C18_WitnessAdmitted ==
    /\ lastEvent = "login"
    /\ isAdmin
    /\ lastAlert = ""

\* Two JSON texts hold structurally equal values: both arrays or both
\* objects, with equal content.
StructurallyEqual(text1, text2) ==
    /\ Has(text1, "top") = Has(text2, "top")
    /\ text1.json = text2.json

\* The document the load read: the seed's text after a fetch, the persisted
\* text after a hydration.
LoadedText ==
    IF lastEvent = "fetched"
    THEN JSONstringifyObject(IF applied = "load_v1" THEN SeedDocument_v1
                             ELSE SeedDocument)
    ELSE ls_locations

\* C19 (as claimed): export gives { locations: [...] } with the collection
\* as it is and changes no application state, and right after a load the
\* exported document is structurally equal to the seed or persisted JSON
\* that was loaded.
C19_ExportEqualsLoaded ==
    [][((CallExport \/ CallExport_v1) /\ lastEvent \in {"load", "fetched"}) =>
          /\ JSONparse(exported').locations = locations
          /\ UNCHANGED <<filterInputs, reactVars, storeVars, fetchPending>>
          /\ StructurallyEqual(exported', LoadedText)]_vars

\* C19 (amended): export gives { locations: [...] } with the collection as
\* it is and changes no application state.  Right after a load from the
\* seed the exported document is structurally equal to the seed; right
\* after a hydration its locations field equals the persisted array, the
\* persisted JSON being the bare array and not an object.
C19_ExportWrapsCollection ==
    [][((CallExport \/ CallExport_v1) /\ lastEvent \in {"load", "fetched"}) =>
          /\ exported' = JSONstringifyObject([locations |-> locations])
          /\ UNCHANGED <<filterInputs, reactVars, storeVars, fetchPending>>
          /\ IF lastEvent = "fetched"
             THEN StructurallyEqual(exported', LoadedText)
             ELSE /\ ~StructurallyEqual(exported', LoadedText)
                  /\ JSONparse(exported').locations = JSONparse(LoadedText)]_vars

\* v2 exported the two records it had hydrated from the store.
C19_Witness ==
    /\ lastEvent = "export"
    /\ applied = "load_v2"
    /\ Len(locations) = 2
    /\ locations[1] # locations[2]
    /\ ls_locations = JSONstringify(locations)
    /\ exported = JSONstringifyObject([locations |-> locations])

\* v1 exported the seed it had fetched.
C19_WitnessSeed ==
    /\ lastEvent = "export"
    /\ applied = "load_v1"
    /\ JSONparse(exported) = SeedDocument_v1

\* C20 (as claimed): between the issue of a seed fetch and its completion
\* no create, update or delete takes effect, so the completion assigns over
\* a collection no admin has edited.
C20_NoWriterDuringFetch ==
    [][/\ (EditorSave \/ \E i \in 1..Len(locations) : PopupDelete(locations[i]))
             => ~fetchPending
       /\ FetchResolves => locations = <<>>]_vars

\* C21: in both revisions a step that starts with the admin flag false
\* changes the collection only by loading it (the seed's arrival, a
\* reload's hydration), never through a user event; create, update and
\* delete change it only with the flag true before and after.
C21_MutationsNeedAdmin ==
    [][/\ (~isAdmin /\ locations' # locations) =>
             lastEvent' \in {"fetched", "reload"}
       /\ (locations' # locations
              /\ lastEvent' \in {"mapClick", "save", "delete", "markerClick",
                                 "input", "cancel", "login"}) =>
             (isAdmin /\ isAdmin')]_vars

\* A visitor who is not the admin clicked a marker of v2: the record is
\* selected, no editor opened, the collection is the seed's.
C21_Witness ==
    /\ applied = "app_v2"
    /\ lastEvent = "markerClick"
    /\ ~isAdmin
    /\ selectedLocation # Null
    /\ ~isEditing
    /\ locations = SeedDocument.locations

\* C22: in both revisions a seed fetch that fails is logged and nothing
\* else: the collection stays as it was, empty when nobody edited it, the
\* store is untouched, and no fetch is pending afterwards; a new fetch is
\* issued only by the next page load.
C22_FetchFailure ==
    [][/\ (lastEvent' = "fetchFailed" /\ fetchPending) =>
             /\ locations' = locations
             /\ ~fetchPending'
             /\ UNCHANGED <<reactVars, storeVars>>
       /\ (~fetchPending /\ fetchPending') =>
             lastEvent' = "reload"]_vars

\* The fetch of a first visit failed: the collection is empty, nothing is
\* persisted, no fetch is pending.
C22_Witness ==
    /\ lastEvent = "fetchFailed"
    /\ locations = <<>>
    /\ ls_locations = Null
    /\ ~fetchPending

\* C23: when the persisted 'locations' value is not JSON and the load
\* reads it (v1: whenever it is present; v2: when the session marker is
\* 'true'), the parse error is thrown out of the load effect: the
\* collection is not assigned, no fetch of the seed is issued, the store
\* keeps the value, and nothing later repairs it.
C23_MalformedStoreThrows ==
    /\ [][/\ (Mount /\ ls_locations = MalformedItem
                 /\ ls_isAdminSession = Item("true")) =>
                (/\ lastEvent' = "loadThrew"
                 /\ locations' = <<>> /\ ~fetchPending'
                 /\ UNCHANGED storeVars)
          /\ (Mount_v1 /\ ls_locations = MalformedItem) =>
                (/\ lastEvent' = "loadThrew"
                 /\ locations' = <<>> /\ ~fetchPending'
                 /\ UNCHANGED storeVars)]_vars
    /\ [][lastEvent = "loadThrew" => UNCHANGED vars]_vars

\* v2's load threw on a malformed value: no collection, no fetch.
C23_Witness ==
    /\ applied = "load_v2"
    /\ lastEvent = "loadThrew"
    /\ ls_locations = MalformedItem
    /\ ls_isAdminSession = Item("true")
    /\ locations = <<>>
    /\ ~fetchPending

\* v2 did not read the malformed value, there being no session marker, and
\* the seed became the collection.
C23_WitnessUnread ==
    /\ applied = "load_v2"
    /\ lastEvent = "fetched"
    /\ ls_locations = MalformedItem
    /\ locations = SeedDocument.locations

\* C24: in both revisions the save indicator is a last-write-wins debounce.
\* At most one hide timer is pending, and it is the one the save effect
\* remembered last.  Every change of the collection by the admin that leaves
\* it non-empty, and every save and delete, shows the indicator, starts a
\* timer no earlier run started and leaves it the only pending one.  A timer
\* that fires is the one of the most recent run, and within one page the
\* indicator is hidden by nothing else (a page load starts a new page).
\* The delay of 2000 ms is not measured: steps are ordered, not timed.
C24_LastWriteWins ==
    /\ [](/\ Cardinality(saveTimerPending) <= 1
          /\ saveTimerPending \subseteq {saveTimeoutRef})
    /\ [][/\ (/\ isAdmin /\ isAdmin'
              /\ Len(locations') > 0
              /\ \/ locations' # locations
                 \/ lastEvent' \in {"save", "delete"}) =>
                (/\ showSaveIndicator'
                 /\ saveTimeoutRef' \notin saveTimerPending \cup {saveTimeoutRef}
                 /\ saveTimerPending' = {saveTimeoutRef'})
          /\ SaveTimerFires =>
                (/\ saveTimerPending = {saveTimeoutRef}
                 /\ saveTimerPending' = {}
                 /\ ~showSaveIndicator')
          /\ (showSaveIndicator /\ ~showSaveIndicator') =>
                lastEvent' \in {"timer", "reload"}]_vars

\* The admin saved a record after the save effect had already run once: the
\* indicator is shown and the second timer is the only one pending.
C24_Witness ==
    /\ lastEvent = "save"
    /\ isAdmin
    /\ Len(locations) > 0
    /\ showSaveIndicator
    /\ saveTimeoutRef = 2
    /\ saveTimerPending = {2}

\* The timer of the second run fired and hid the indicator.
C24_WitnessFired ==
    /\ lastEvent = "timer"
    /\ ~showSaveIndicator
    /\ saveTimeoutRef = 2
    /\ saveTimerPending = {}

\* C25 (as claimed): in both revisions a step downloads locations.json only
\* in a production build, only with the admin flag true after it, and only
\* when it changes the collection.
C25_DownloadOnlyOnSave ==
    [][(downloaded' # Null) =>
          /\ NODE_ENV = "production"
          /\ isAdmin'
          /\ locations' # locations]_vars

\* C26: in every reachable state of either revision the editing flag implies
\* the admin flag.
C26_EditingImpliesAdmin == isEditing => isAdmin

\* The admin of v1 has an editor open on a record of the collection.
C26_Witness ==
    /\ applied = "app_v1"
    /\ isEditing /\ isAdmin
    /\ selectedLocation # Null
    /\ Len(locations) > 0

\* A visitor of v2 logged out of an admin session: neither flag is set.
C26_WitnessLoggedOut ==
    /\ applied = "app_v2"
    /\ lastEvent = "logout"
    /\ ~isEditing /\ ~isAdmin

\* C27: in v2 a map click of the admin only opens a draft: the collection
\* and the persistent store stay as they are and the editor holds a record
\* whose id is the clock's value.  A user event lengthens the collection
\* only when it is the editor's Save, and Cancel leaves the collection and
\* the store as they are, so that a click followed by Cancel gives back the
\* collection of before the click.
C27_MapClickOnlyDrafts ==
    [][/\ (lastEvent' = "mapClick") =>
             /\ UNCHANGED <<locations, storeVars>>
             /\ isEditing'
             /\ selectedLocation' # Null
             /\ selectedLocation'.id = now'
       /\ (Len(locations') > Len(locations)) =>
             \/ lastEvent' = "save" /\ isEditing /\ ~isEditing'
             \/ lastEvent' \in {"fetched", "reload"}
       /\ (lastEvent' = "cancel") =>
             /\ UNCHANGED <<locations, storeVars>>
             /\ ~isEditing'
             /\ selectedLocation' = Null]_vars

\* The admin clicked the map over the seed: a draft is open, the collection
\* is the seed's and does not hold the draft.
C27_Witness ==
    /\ lastEvent = "mapClick"
    /\ isAdmin /\ isEditing
    /\ selectedLocation # Null
    /\ locations = SeedDocument.locations
    /\ \A i \in 1..Len(locations) : locations[i].id # selectedLocation.id

\* The draft was saved: the collection is the seed and one record more.
C27_WitnessSaved ==
    /\ lastEvent = "save"
    /\ Len(locations) = Len(SeedDocument.locations) + 1
    /\ SubSeq(locations, 1, Len(SeedDocument.locations)) =
          SeedDocument.locations
    /\ ls_locations = JSONstringify(locations)

\* The draft was cancelled before anything was saved: the collection is the
\* seed's and the store holds no collection.
C27_WitnessCancelled ==
    /\ lastEvent = "cancel"
    /\ isAdmin /\ ~isEditing
    /\ locations = SeedDocument.locations
    /\ selectedLocation = Null

\* C28: in v2, started on an empty store, in every reachable state the admin
\* flag being true implies that the persisted session marker is 'true', and
\* a persisted 'locations' value being present implies the same.
C28_MarkerCoversFlagAndStore ==
    /\ isAdmin => ls_isAdminSession = Item("true")
    /\ ls_locations # Null => ls_isAdminSession = Item("true")

\* The admin's page was reloaded: the flag is false again while the marker
\* and the persisted collection are still there.
C28_Witness ==
    /\ lastEvent = "reload"
    /\ ~isAdmin
    /\ ls_locations # Null
    /\ ls_isAdminSession = Item("true")

\* The admin is logged in over an empty collection: the marker is set and
\* nothing was persisted.
C28_WitnessFlagOnly ==
    /\ isAdmin
    /\ ls_locations = Null
    /\ ls_isAdminSession = Item("true")

\* C29: on every collection whose records each carry one scalar category,
\* with every search term and every set of selected categories, the filter
\* of v2 gives what the filter of v1 gives: the same sequence, or a throw
\* where the other throws.
C29_FiltersAgreeOnLegacy ==
    (/\ rendered
     /\ \A i \in 1..Len(locations) :
           /\ Has(locations[i], "category")
           /\ ~locations[i].category.isArray) =>
        shown = shown_v1

\* A collection of two records of scalar categories, a category selected:
\* both filters kept one record and dropped the other.
C29_Witness ==
    /\ rendered
    /\ Len(locations) = 2
    /\ \A i \in 1..Len(locations) :
          /\ Has(locations[i], "category")
          /\ ~locations[i].category.isArray
    /\ selectedCategories # {}
    /\ ~shown.threw /\ ~shown_v1.threw
    /\ Len(shown.value) = 1
    /\ Len(shown_v1.value) = 1

\* C30: startParty changes nothing while a party is in progress, so at most
\* one end-of-party timer is pending; every party that started ends, with the
\* hot-dog list empty and isPartyTime false; and the hot-dog list is
\* non-empty only while isPartyTime is true.
C30_OnePartyAtATime ==
    /\ [][(isPartyTime /\ lastEvent' = "startParty") =>
             UNCHANGED partyVars]_vars
    /\ [](/\ Len(partyTimers) <= 1
          /\ isPartyTime <=> Len(partyTimers) = 1
          /\ Len(hotdogs) > 0 => isPartyTime)
    /\ [][(isPartyTime /\ ~isPartyTime') =>
             /\ hotdogs' = <<>>
             /\ partyTimers' = <<>>
             /\ \/ lastEvent' = "endParty" /\ partyTimers = <<0>>
                \/ lastEvent' = "reload"]_vars
    /\ isPartyTime ~> (~isPartyTime /\ hotdogs = <<>>)

\* The button's handler ran two seconds into a party: 30 hot dogs are
\* shown and the one timer has three seconds left.
C30_Witness ==
    /\ lastEvent = "startParty"
    /\ isPartyTime
    /\ Len(hotdogs) = PartySize
    /\ partyTimers = <<PartyDelay - 2>>

\* The timer fired: the party is over and nothing is pending.
C30_WitnessEnded ==
    /\ lastEvent = "endParty"
    /\ ~isPartyTime
    /\ hotdogs = <<>>
    /\ partyTimers = <<>>

====
